---- MODULE Spec2Model ----
(***************************************************************************)
(* Model of the attorney-attribution pipeline of src/main.py:              *)
(*   build_court_filter_query, extract_attorneys_from_text,                *)
(*   fetch_opinion_text, fetch_parties_and_attorneys and                   *)
(*   search_with_attorney_extraction.                                      *)
(* Python strings are TLA+ strings; character-level work (lower(), strip(),*)
(* substring tests, regular expressions) is done on the sequence of their  *)
(* one-character strings.                                                  *)
(***************************************************************************)
EXTENDS Integers, Sequences, FiniteSets, TLC

VARIABLES
  jpc, jurisdiction, court_filter,          \* build_court_filter_query
  epc, text, party_filter, pattern_no,      \* extract_attorneys_from_text
  matches, attorneys, unique_attorneys, second_run,
  dpc, docket_reply, party_no, docket_attorneys,  \* fetch_parties_and_attorneys
  apc, attorneys_found, fold_no, attorney_counts, ranking,  \* aggregation
  \* search_with_attorney_extraction; lookups records, for each case, the
  \* records collected before the party filter and the cluster reply
  pc, request, results, case_no, case_attorneys, cluster_reply,
  cases_with_attorneys, all_attorneys, lookups, response,
  \* the replies received, and the log of the requests made for the cases
  search_reply, parties_reply, opinion_reply, calls,
  vpc, verify_request, verification_url, verify_response,  \* verify_attorney
  spc, plain_request, plain_reply, plain_response,  \* search_courtlistener
  opc, cluster_response, opinion_response, opinion_text,  \* fetch_opinion_text
  \* two executions of search_with_attorney_extraction at once: the local
  \* variables of each
  runs

jvars == <<jpc, jurisdiction, court_filter>>
evars == <<epc, text, party_filter, pattern_no, matches, attorneys,
           unique_attorneys, second_run>>

dvars == <<dpc, docket_reply, party_no, docket_attorneys>>

avars == <<apc, attorneys_found, fold_no, attorney_counts, ranking>>

pvars == <<pc, request, results, case_no, case_attorneys, cluster_reply,
           cases_with_attorneys, all_attorneys, lookups, response,
           search_reply, parties_reply, opinion_reply, calls>>

vvars == <<vpc, verify_request, verification_url, verify_response>>

svars == <<spc, plain_request, plain_reply, plain_response>>

ovars == <<opc, cluster_response, opinion_response, opinion_text>>

rvars == <<runs>>

vars == <<jvars, evars, dvars, avars, pvars, vvars, svars, ovars, rvars>>

\* what each part of the program leaves alone
jrest == <<evars, dvars, avars, pvars, vvars, svars, ovars, rvars>>
erest == <<jvars, dvars, avars, pvars, vvars, svars, ovars, rvars>>
drest == <<jvars, evars, avars, pvars, vvars, svars, ovars, rvars>>
arest == <<jvars, evars, dvars, pvars, vvars, svars, ovars, rvars>>
prest == <<jvars, evars, dvars, avars, vvars, svars, ovars, rvars>>
vrest == <<jvars, evars, dvars, avars, pvars, svars, ovars, rvars>>
srest == <<jvars, evars, dvars, avars, pvars, vvars, ovars, rvars>>
orest == <<jvars, evars, dvars, avars, pvars, vvars, svars, rvars>>
rrest == <<jvars, evars, dvars, avars, pvars, vvars, svars, ovars>>

(***************************************************************************)
(* Strings                                                                 *)
(***************************************************************************)
None == "<None>"

Chars(s) == [i \in 1..Len(s) |-> SubSeq(s, i, i)]

\* "".join(cs)
RECURSIVE Str(_)
Str(cs) ==
  IF Len(cs) = 0 THEN ""
  ELSE IF Len(cs) = 1 THEN cs[1]
  ELSE LET mid == Len(cs) \div 2 IN
       Str(SubSeq(cs, 1, mid)) \o Str(SubSeq(cs, mid + 1, Len(cs)))

\* body(v) for the value v of an expression that is evaluated once
With(v, body(_)) == CHOOSE result \in {body(x) : x \in {v}} : TRUE

UpperLetters == Chars("ABCDEFGHIJKLMNOPQRSTUVWXYZ")
LowerLetters == Chars("abcdefghijklmnopqrstuvwxyz")
Letters == {LowerLetters[i] : i \in 1..26}
Whitespace == {" ", "\n", "\t"}

\* the lower-case letter of each upper-case letter
LowerOf ==
  [c \in {UpperLetters[i] : i \in 1..26} |->
     LowerLetters[CHOOSE i \in 1..26 : UpperLetters[i] = c]] @@ <<>>

LowerChar(c) == IF c \in DOMAIN LowerOf THEN LowerOf[c] ELSE c

UpperChar(c) ==
  IF \E i \in 1..26 : LowerLetters[i] = c
  THEN UpperLetters[CHOOSE i \in 1..26 : LowerLetters[i] = c]
  ELSE c

\* str.lower()
Lower(s) == Str([i \in 1..Len(s) |-> LowerChar(SubSeq(s, i, i))])

\* str.upper()
Upper(s) == Str([i \in 1..Len(s) |-> UpperChar(SubSeq(s, i, i))])

\* the Python test  t in s  on strings
Contains(s, t) ==
  \E i \in 0..(Len(s) - Len(t)) : SubSeq(s, i + 1, i + Len(t)) = t

\* sep.join(parts)
RECURSIVE JoinWith(_, _)
JoinWith(sep, parts) ==
  IF parts = <<>> THEN ""
  ELSE IF Len(parts) = 1 THEN parts[1]
  ELSE parts[1] \o sep \o JoinWith(sep, Tail(parts))

(***************************************************************************)
(* COURTLISTENER_JURISDICTIONS, in declaration order                       *)
(***************************************************************************)
COURTLISTENER_JURISDICTIONS ==
    <<
       <<"ca", <<"cal", "calctapp", "calappdeptsuperct">>>>,
       <<"tx", <<"tex", "texapp", "texcrimapp">>>>,
       <<"ny", <<"ny", "nyappdiv", "nyappterm">>>>,
       <<"fl", <<"fla", "fladistctapp">>>>,
       <<"il", <<"ill", "illappct">>>>,
       <<"pa", <<"pa", "pasuperct", "pacommwct">>>>,
       <<"oh", <<"ohio", "ohioctapp">>>>,
       <<"ga", <<"ga", "gactapp">>>>,
       <<"nc", <<"nc", "ncctapp">>>>,
       <<"nj", <<"nj", "njsuperctappdiv">>>>,
       <<"mi", <<"mich", "michctapp">>>>,
       <<"va", <<"va", "vactapp">>>>,
       <<"wa", <<"wash", "washctapp">>>>,
       <<"az", <<"ariz", "arizctapp">>>>,
       <<"ma", <<"mass", "massappct">>>>,
       <<"in", <<"ind", "indctapp">>>>,
       <<"tn", <<"tenn", "tennctapp">>>>,
       <<"mo", <<"mo", "moctapp">>>>,
       <<"md", <<"md", "mdctspecapp">>>>,
       <<"wi", <<"wis", "wisctapp">>>>,
       <<"co", <<"colo", "coloctapp">>>>,
       <<"mn", <<"minn", "minnctapp">>>>,
       <<"al", <<"ala", "alactapp">>>>,
       <<"sc", <<"sc", "scctapp">>>>,
       <<"la", <<"la", "lactapp">>>>,
       <<"ky", <<"ky", "kyctapp">>>>,
       <<"or", <<"or", "orctapp">>>>,
       <<"ok", <<"okla", "oklacivapp", "oklacrimapp">>>>,
       <<"ct", <<"conn", "connappct">>>>,
       <<"ia", <<"iowa", "iowactapp">>>>,
       <<"ms", <<"miss", "missctapp">>>>,
       <<"ar", <<"ark", "arkctapp">>>>,
       <<"ks", <<"kan", "kanctapp">>>>,
       <<"ut", <<"utah", "utahctapp">>>>,
       <<"nv", <<"nev", "nevapp">>>>,
       <<"nm", <<"nm", "nmctapp">>>>,
       <<"ne", <<"neb", "nebctapp">>>>,
       <<"wv", <<"wva">>>>,
       <<"id", <<"idaho", "idahoctapp">>>>,
       <<"hi", <<"haw", "hawapp">>>>,
       <<"me", <<"me">>>>,
       <<"nh", <<"nh">>>>,
       <<"ri", <<"ri">>>>,
       <<"mt", <<"mont">>>>,
       <<"de", <<"del", "delch", "delsuperct">>>>,
       <<"sd", <<"sd">>>>,
       <<"nd", <<"nd", "ndctapp">>>>,
       <<"ak", <<"alaska", "alaskactapp">>>>,
       <<"dc", <<"dc", "dcctapp">>>>,
       <<"vt", <<"vt">>>>,
       <<"wy", <<"wyo">>>>,
       <<"scotus", <<"scotus">>>>,
       <<"federal", <<"ca1", "ca2", "ca3", "ca4", "ca5", "ca6", "ca7", "ca8", "ca9", "ca10", "ca11", "cadc", "cafc">>>>
    >>

JurisdictionKeys ==
  {COURTLISTENER_JURISDICTIONS[i][1] : i \in 1..Len(COURTLISTENER_JURISDICTIONS)}

CourtIds(key) ==
  COURTLISTENER_JURISDICTIONS[
    CHOOSE i \in 1..Len(COURTLISTENER_JURISDICTIONS) :
      COURTLISTENER_JURISDICTIONS[i][1] = key][2]

(***************************************************************************)
(* build_court_filter_query                                                *)
(***************************************************************************)
\* mutant: the disjunction is returned without its parentheses
build_court_filter_query_NoParens(j) ==
  LET jl == Lower(j) IN
  IF jl \in JurisdictionKeys
  THEN LET court_ids == CourtIds(jl) IN
       IF Len(court_ids) = 1
       THEN "court_id:" \o court_ids[1]
       ELSE JoinWith(" OR ", [i \in 1..Len(court_ids) |->
                                "court_id:" \o court_ids[i]])
  ELSE "court_id:" \o jl

\* mutant: the code is looked up and passed through as given, not lower-cased
build_court_filter_query_NoLower(j) ==
  IF j \in JurisdictionKeys
  THEN LET court_ids == CourtIds(j) IN
       IF Len(court_ids) = 1
       THEN "court_id:" \o court_ids[1]
       ELSE "(" \o JoinWith(" OR ", [i \in 1..Len(court_ids) |->
                                       "court_id:" \o court_ids[i]]) \o ")"
  ELSE "court_id:" \o j

build_court_filter_query(j) ==
  LET jl == Lower(j) IN
  IF jl \in JurisdictionKeys
  THEN LET court_ids == CourtIds(jl) IN
       IF Len(court_ids) = 1
       THEN "court_id:" \o court_ids[1]
       ELSE LET court_clauses ==
                  [i \in 1..Len(court_ids) |-> "court_id:" \o court_ids[i]]
            IN "(" \o JoinWith(" OR ", court_clauses) \o ")"
  ELSE "court_id:" \o jl

\* Jurisdiction codes offered to the builder: every table key in lower, upper
\* and capitalised form, and codes that are not keys of the table.
Capitalize(s) == Upper(SubSeq(s, 1, 1)) \o SubSeq(s, 2, Len(s))

UnknownCodes == {"xx", "XX", "Guam", "cal", "CAL", "ca9", "Tex", "pr", "c", ""}

JurisdictionInputs ==
  JurisdictionKeys
    \cup {Upper(k) : k \in JurisdictionKeys}
    \cup {Capitalize(k) : k \in JurisdictionKeys}
    \cup UnknownCodes

JurIdle == jpc = "idle" /\ jurisdiction = "" /\ court_filter = ""

JurInit ==
  /\ jpc = "call"
  /\ jurisdiction \in JurisdictionInputs
  /\ court_filter = ""

BuildCourtFilter ==
  /\ jpc = "call"
  /\ court_filter' = build_court_filter_query(jurisdiction)
  /\ jpc' = "return"
  /\ UNCHANGED <<jurisdiction, jrest>>

(***************************************************************************)
(* Regular expressions (module re, flags IGNORECASE | MULTILINE).          *)
(* A pattern is a tree of nodes; Match gives, for a start offset, every    *)
(* way the node can match there, in the order the backtracking engine      *)
(* tries them (greedy quantifiers, alternatives left to right), so the     *)
(* first entry is the match re reports.  t is the sequence of characters   *)
(* matched against; c records the spans of the two capturing groups.       *)
(***************************************************************************)
Set(s) == [k |-> "set", s |-> s]                 \* one character of a class
NotSet(s) == [k |-> "nset", s |-> s]             \* [^...]
Cat(rs) == [k |-> "cat", rs |-> rs]
Alt(rs) == [k |-> "alt", rs |-> rs]
Opt(r) == [k |-> "opt", r |-> r]                 \* r?
Star(r) == [k |-> "star", r |-> r]               \* r*
Plus(r) == [k |-> "plus", r |-> r]               \* r+
Group(n, r) == [k |-> "grp", n |-> n, r |-> r]   \* capturing group n

\* a literal, matched case-insensitively (kept in lower case)
Lit(s) == [k |-> "lit", cs |-> Chars(Lower(s)) \o <<>>]

NoGroups == <<<<0, 0>>, <<0, 0>>>>

\* the sequence f with its elements evaluated
Tuple(f) == f \o <<>>

\* the concatenation of a sequence of sequences
RECURSIVE Flatten(_)
Flatten(ss) ==
  With(Tuple(ss), LAMBDA v :
    IF Len(v) = 0 THEN <<>>
    ELSE IF Len(v) = 1 THEN v[1]
    ELSE Flatten(SubSeq(v, 1, Len(v) \div 2))
           \o Flatten(SubSeq(v, (Len(v) \div 2) + 1, Len(v))))

\* the longest run of characters of class r (a "set" or "nset" node) at i
Run(r, t, i) ==
  LET In(j) == IF r.k = "set" THEN t[j] \in r.s ELSE t[j] \notin r.s
      Rest == (i + 1)..Len(t)
  IN IF \A j \in Rest : In(j) THEN Len(t) - i
     ELSE (CHOOSE j \in Rest : ~In(j) /\ \A m \in (i + 1)..(j - 1) : In(m))
            - i - 1

\* a greedy quantifier over a single character class: the longest run
\* first, then one character less at a time, down to least characters
Greedy(i, c, run, least) ==
  Tuple([n \in 1..(run - least + 1) |-> [e |-> i + run + 1 - n, c |-> c]])

RECURSIVE Match(_, _, _, _)
RECURSIVE MatchCat(_, _, _, _)
RECURSIVE MatchStar(_, _, _, _)

\* Match(r, t, i, c): the matches of node r in t at offset i, in the order
\* the engine tries them, each with its end offset e and the groups c
Match(r, t, i, c) ==
  CASE r.k = "set" ->
         IF i < Len(t) /\ t[i + 1] \in r.s
         THEN <<[e |-> i + 1, c |-> c]>> ELSE <<>>
    [] r.k = "nset" ->
         IF i < Len(t) /\ t[i + 1] \notin r.s
         THEN <<[e |-> i + 1, c |-> c]>> ELSE <<>>
    [] r.k = "lit" ->
         IF i + Len(r.cs) <= Len(t) /\ SubSeq(t, i + 1, i + Len(r.cs)) = r.cs
         THEN <<[e |-> i + Len(r.cs), c |-> c]>> ELSE <<>>
    [] r.k = "cat" -> MatchCat(r.rs, t, i, c)
    [] r.k = "alt" ->
         Flatten([n \in 1..Len(r.rs) |-> Match(r.rs[n], t, i, c)])
    [] r.k = "opt" -> Match(r.r, t, i, c) \o <<[e |-> i, c |-> c]>>
    [] r.k = "star" ->
         IF r.r.k \in {"set", "nset"}
         THEN With(Run(r.r, t, i), LAMBDA run : Greedy(i, c, run, 0))
         ELSE MatchStar(r.r, t, i, c)
    [] r.k = "plus" ->
         IF r.r.k \in {"set", "nset"}
         THEN With(Run(r.r, t, i), LAMBDA run : Greedy(i, c, run, 1))
         ELSE With(Match(r.r, t, i, c), LAMBDA first :
                Flatten([n \in 1..Len(first) |->
                           With(first[n], LAMBDA m :
                             MatchStar(r.r, t, m.e, m.c))]))
    [] r.k = "grp" ->
         With(Match(r.r, t, i, c), LAMBDA inner :
           Tuple([n \in 1..Len(inner) |->
                    [e |-> inner[n].e,
                     c |-> [inner[n].c EXCEPT ![r.n] = <<i, inner[n].e>>]]]))

MatchCat(rs, t, i, c) ==
  IF rs = <<>> THEN <<[e |-> i, c |-> c]>>
  ELSE With(Match(Head(rs), t, i, c), LAMBDA first :
         Flatten([n \in 1..Len(first) |->
                    With(first[n], LAMBDA m :
                      MatchCat(Tail(rs), t, m.e, m.c))]))

MatchStar(r, t, i, c) ==
  With(Match(r, t, i, c), LAMBDA first :
    Flatten([n \in 1..Len(first) |->
               With(first[n], LAMBDA m :
                 IF m.e > i THEN MatchStar(r, t, m.e, m.c) ELSE <<>>)]))
      \o <<[e |-> i, c |-> c]>>

\* re.finditer(pattern, text): the non-overlapping matches, left to right,
\* each given by match.groups() (both groups always take part here).  With
\* IGNORECASE the classes and literals, written in lower case, are matched
\* against the lower-cased text tl; the groups are cut from the text t.

\* the first offset in lo..hi at which r matches, or -1
RECURSIVE FirstHit(_, _, _, _)
FirstHit(r, tl, lo, hi) ==
  IF lo > hi THEN -1
  ELSE IF lo = hi THEN (IF Match(r, tl, lo, NoGroups) # <<>> THEN lo ELSE -1)
  ELSE With((lo + hi) \div 2, LAMBDA mid :
         With(FirstHit(r, tl, lo, mid), LAMBDA left :
           IF left # -1 THEN left ELSE FirstHit(r, tl, mid + 1, hi)))

RECURSIVE FindIterFrom(_, _, _, _)
FindIterFrom(r, t, tl, from) ==
  With(FirstHit(r, tl, from, Len(t)), LAMBDA start :
    IF start = -1 THEN <<>>
    ELSE With(Match(r, tl, start, NoGroups)[1], LAMBDA m :
           <<<<Str(SubSeq(t, m.c[1][1] + 1, m.c[1][2])),
               Str(SubSeq(t, m.c[2][1] + 1, m.c[2][2]))>>>>
             \o FindIterFrom(r, t, tl,
                             IF m.e > start THEN m.e ELSE start + 1)))

finditer(r, s) ==
  With(Tuple(Chars(s)), LAMBDA t :
    With(Tuple(Chars(Lower(s))), LAMBDA tl : FindIterFrom(r, t, tl, 0)))

(***************************************************************************)
(* The five patterns of extract_attorneys_from_text                        *)
(***************************************************************************)
Letter == Set(Letters)                            \* [A-Z] and [a-z]
WS == Set(Whitespace)                             \* \s
CapWord == Cat(<<Letter, Plus(Letter)>>)          \* [A-Z][a-z]+
\* (?:\s+[A-Z]\.?\s*)?
MiddleInitial == Opt(Cat(<<Plus(WS), Letter, Opt(Set({"."})), Star(WS)>>))
\* [,\s]+for\s+
CommaFor == Cat(<<Plus(Set({","} \cup Whitespace)), Lit("for"), Plus(WS)>>)
Party5 == <<Lit("Appellant"), Lit("Appellee"), Lit("Respondent"),
            Lit("Plaintiff"), Lit("Defendant")>>
Party6 == Party5 \o <<Lit("Petitioner")>>
\* Real Part(?:y|ies) in Interest
RealParty == Cat(<<Lit("Real Part"), Alt(<<Lit("y"), Lit("ies")>>),
                   Lit(" in Interest")>>)

Pattern1 ==
  Cat(<<Group(1, Cat(<<CapWord, MiddleInitial,
                       Plus(Cat(<<Plus(WS), CapWord>>))>>)),
        Opt(Cat(<<Opt(Set({","})), Plus(WS),
                  Opt(Cat(<<Lit("Attorney"), Opt(Lit("s")), Plus(WS),
                            Opt(Cat(<<Lit("at"), Plus(WS), Lit("Law")>>))>>))>>)),
        CommaFor,
        Group(2, Alt(Party6 \o <<RealParty>>))>>)

Pattern2 ==
  Cat(<<Group(1, Cat(<<Lit("Law"), Plus(WS), Lit("Office"), Opt(Lit("s")),
                       Plus(WS), Lit("of"), Plus(WS), CapWord, MiddleInitial,
                       Star(Cat(<<Plus(WS), CapWord>>))>>)),
        CommaFor,
        Group(2, Alt(Party6))>>)

Pattern3 ==
  Cat(<<Group(1, Cat(<<CapWord, MiddleInitial,
                       Star(Cat(<<Plus(WS), CapWord>>)),
                       Opt(Cat(<<Star(WS), Alt(<<Lit("&"), Lit("and")>>),
                                 Star(WS), CapWord,
                                 Star(Cat(<<Plus(WS), CapWord>>))>>)),
                       Opt(Alt(<<Cat(<<Star(WS), Set({","}), Star(WS),
                                       Lit("LLP")>>),
                                 Lit("LLC"), Lit("PC"), Lit("P.C.")>>))>>)),
        CommaFor,
        Group(2, Alt(Party6))>>)

Pattern4 ==
  Cat(<<Group(1, Cat(<<Opt(Cat(<<Lit("Office"), Plus(WS), Lit("of"), Plus(WS)>>)),
                       Opt(Cat(<<Lit("the"), Plus(WS)>>)),
                       Opt(Cat(<<Lit("California"), Plus(WS)>>)),
                       Lit("Attorney"), Plus(WS), Lit("General"),
                       Star(NotSet({","}))>>)),
        Opt(Set({","})), Plus(WS), Lit("for"), Plus(WS),
        Group(2, Alt(Party5))>>)

Pattern5 ==
  Cat(<<Alt(<<Lit("Counsel"), Cat(<<Lit("Attorney"), Opt(Lit("s"))>>)>>),
        Plus(WS), Lit("for"), Plus(WS),
        Group(1, Alt(Party5)),
        Plus(Set({":"} \cup Whitespace)),
        Group(2, Cat(<<CapWord, MiddleInitial,
                       Plus(Cat(<<Plus(WS), CapWord>>))>>))>>)

\* patterns: the compiled pattern and the pattern's source text
patterns ==
  <<[re |-> Pattern1,
     src |-> "([A-Z][a-z]+(?:\\s+[A-Z]\\.?\\s*)?(?:\\s+[A-Z][a-z]+)+)(?:,?\\s+(?:Attorney(?:s)?\\s+(?:at\\s+Law)?)?)?[,\\s]+for\\s+(Appellant|Appellee|Respondent|Plaintiff|Defendant|Petitioner|Real Part(?:y|ies) in Interest)"],
    [re |-> Pattern2,
     src |-> "(Law\\s+Offices?\\s+of\\s+[A-Z][a-z]+(?:\\s+[A-Z]\\.?\\s*)?(?:\\s+[A-Z][a-z]+)*)[,\\s]+for\\s+(Appellant|Appellee|Respondent|Plaintiff|Defendant|Petitioner)"],
    [re |-> Pattern3,
     src |-> "([A-Z][a-z]+(?:\\s+[A-Z]\\.?\\s*)?(?:\\s+[A-Z][a-z]+)*(?:\\s*(?:&|and)\\s*[A-Z][a-z]+(?:\\s+[A-Z][a-z]+)*)?(?:\\s*,\\s*LLP|LLC|PC|P\\.C\\.)?)[,\\s]+for\\s+(Appellant|Appellee|Respondent|Plaintiff|Defendant|Petitioner)"],
    [re |-> Pattern4,
     src |-> "((?:Office\\s+of\\s+)?(?:the\\s+)?(?:California\\s+)?Attorney\\s+General[^,]*),?\\s+for\\s+(Appellant|Appellee|Respondent|Plaintiff|Defendant)"],
    [re |-> Pattern5,
     src |-> "(?:Counsel|Attorney(?:s)?)\\s+for\\s+(Appellant|Appellee|Respondent|Plaintiff|Defendant)[:\\s]+([A-Z][a-z]+(?:\\s+[A-Z]\\.?\\s*)?(?:\\s+[A-Z][a-z]+)+)"]>>

(***************************************************************************)
(* extract_attorneys_from_text                                             *)
(***************************************************************************)
IsSpace(ch) == ch \in Whitespace

\* str.strip()
Strip(s) ==
  LET cs == Chars(s)
      Solid == {i \in 1..Len(cs) : ~IsSpace(cs[i])}
  IN IF Solid = {} THEN ""
     ELSE LET first == CHOOSE i \in Solid : \A j \in Solid : i <= j
              last == CHOOSE i \in Solid : \A j \in Solid : j <= i
          IN SubSeq(s, first, last)

\* re.sub(r'\s+', ' ', s): every maximal run of whitespace becomes one space
CollapseSpaces(s) ==
  LET cs == Chars(s)
      Keep(i) == ~IsSpace(cs[i]) \/ i = 1 \/ ~IsSpace(cs[i - 1])
      kept == SelectSeq([i \in 1..Len(cs) |-> i], Keep)
  IN Str([n \in 1..Len(kept) |->
            IF IsSpace(cs[kept[n]]) THEN " " ELSE cs[kept[n]]])

\* re.sub(r',$', '', s): $ matches at the end and before a final newline
DropTrailingComma(s) ==
  LET n == Len(s) IN
  IF n >= 1 /\ SubSeq(s, n, n) = "," THEN SubSeq(s, 1, n - 1)
  ELSE IF n >= 2 /\ SubSeq(s, n - 1, n) = ",\n"
       THEN SubSeq(s, 1, n - 2) \o "\n"
  ELSE s

\* party_aliases of extract_attorneys_from_text, as (key, terms) pairs
ExtractorPartyAliases ==
  <<<<"appellant", <<"appellant", "plaintiff", "petitioner">>>>,
    <<"appellee", <<"appellee", "respondent", "defendant">>>>,
    <<"plaintiff", <<"plaintiff", "appellant", "petitioner">>>>,
    <<"defendant", <<"defendant", "appellee", "respondent">>>>,
    <<"tenant", <<"appellant", "plaintiff", "petitioner", "tenant">>>>,
    <<"landlord", <<"appellee", "respondent", "defendant", "landlord">>>>>>

\* dict.get(key, default) on a sequence of (key, value) pairs
DictGet(dict, key, default) ==
  IF \E i \in 1..Len(dict) : dict[i][1] = key
  THEN dict[CHOOSE i \in 1..Len(dict) : dict[i][1] = key][2]
  ELSE default

\* filter_parties
FilterParties(pf) ==
  IF pf # "all" THEN DictGet(ExtractorPartyAliases, Lower(pf), <<>>) ELSE <<>>

skip_words ==
  <<"the court", "this court", "trial court", "superior court",
    "we conclude", "we hold", "we reverse", "we affirm">>

\* any(term in s for term in terms)
AnyIn(terms, s) == \E i \in 1..Len(terms) : Contains(s, terms[i])

AttorneyInfo(name, role, firm, party, source) ==
  [name |-> name, role |-> role, firm |-> firm,
   party_represented |-> party, source |-> source]

\* mutant: the reject list is tested on the name as captured, before the
\* whitespace of the name is normalized
ProcessMatch_SkipBeforeClean(pattern_src, groups, pf) ==
  LET name_first == Contains(Lower(pattern_src), "for") /\ groups[1] # ""
      name == IF name_first THEN Strip(groups[1]) ELSE Strip(groups[2])
      party == IF name_first THEN Strip(groups[2]) ELSE Strip(groups[1])
      filter_parties == FilterParties(pf)
      clean == DropTrailingComma(Strip(CollapseSpaces(name)))
  IN IF name = "" \/ Len(name) < 3 THEN <<>>
     ELSE IF filter_parties # <<>> /\ ~AnyIn(filter_parties, Lower(party))
          THEN <<>>
     ELSE IF AnyIn(skip_words, Lower(name)) THEN <<>>
     ELSE <<AttorneyInfo(clean, "For " \o party, None, party, "opinion_text")>>

\* The body of the loop over the matches of one pattern: the records (none
\* or one) that the match with these groups appends to attorneys.
ProcessMatch(pattern_src, groups, pf) ==
  LET name_first == Contains(Lower(pattern_src), "for") /\ groups[1] # ""
      name == IF name_first THEN Strip(groups[1]) ELSE Strip(groups[2])
      party == IF name_first THEN Strip(groups[2]) ELSE Strip(groups[1])
      filter_parties == FilterParties(pf)
      clean == DropTrailingComma(Strip(CollapseSpaces(name)))
  IN IF name = "" \/ Len(name) < 3 THEN <<>>
     ELSE IF filter_parties # <<>> /\ ~AnyIn(filter_parties, Lower(party))
          THEN <<>>
     ELSE IF AnyIn(skip_words, Lower(clean)) THEN <<>>
     ELSE <<AttorneyInfo(clean, "For " \o party, None, party, "opinion_text")>>

\* "Deduplicate by name": the loop over attorneys with its seen_names set
RECURSIVE DedupLoop(_, _, _)
DedupLoop(attys, seen_names, unique) ==
  With(<<attys, seen_names, unique>>, LAMBDA a :
    IF a[1] = <<>> THEN a[3]
    ELSE With(Lower(Head(a[1]).name), LAMBDA name_lower :
           IF name_lower \notin a[2]
           THEN DedupLoop(Tail(a[1]), a[2] \cup {name_lower},
                          Append(a[3], Head(a[1])))
           ELSE DedupLoop(Tail(a[1]), a[2], a[3])))

\* mutant: seen_names holds the names as written, so names that differ only
\* in letter case are both kept
RECURSIVE DedupLoop_CaseSensitive(_, _, _)
DedupLoop_CaseSensitive(attys, seen_names, unique) ==
  With(<<attys, seen_names, unique>>, LAMBDA a :
    IF a[1] = <<>> THEN a[3]
    ELSE With(Head(a[1]).name, LAMBDA name :
           IF name \notin a[2]
           THEN DedupLoop_CaseSensitive(Tail(a[1]), a[2] \cup {name},
                                        Append(a[3], Head(a[1])))
           ELSE DedupLoop_CaseSensitive(Tail(a[1]), a[2], a[3])))

Dedup_CaseSensitive(attys) == DedupLoop_CaseSensitive(attys, {}, <<>>)

\* mutant: the loop stops one record short of the end of the list
Dedup_StopsShort(attys) ==
  DedupLoop(SubSeq(attys, 1, Len(attys) - 1), {}, <<>>)

Dedup(attys) == DedupLoop(attys, {}, <<>>)

\* extract_attorneys_from_text as a whole: the matches of each pattern in
\* turn, each accepted or discarded, then the deduplication
extract_attorneys_from_text(txt, pf) ==
  IF txt = "" THEN <<>>
  ELSE Dedup(Flatten([p \in 1..Len(patterns) |->
         With(finditer(patterns[p].re, txt), LAMBDA ms :
           Flatten([m \in 1..Len(ms) |->
                      ProcessMatch(patterns[p].src, ms[m], pf)]))]))

\* Opinion texts: up to MaxFragments of these listings, one after the other.
Fragments ==
  {"Al Roe, for Appellant. ",
   "AL  ROE for Appellee. ",
   "The  Court, for Defendant. ",
   "Counsel for Plaintiff: Cy Day. ",
   "Ab, for Petitioner. ",
   "Attorney General, for Respondent. "}

MaxFragments == 2

RECURSIVE TextsOf(_)
TextsOf(n) ==
  IF n = 0 THEN {""}
  ELSE TextsOf(n - 1) \cup {t \o f : t \in TextsOf(n - 1), f \in Fragments}

PartyFilters == {"all", "tenant", "Appellee", "plaintiff", "judge"}

ExtIdle ==
  /\ epc = "idle" /\ text = "" /\ party_filter = "all" /\ pattern_no = 0
  /\ matches = <<>> /\ attorneys = <<>> /\ unique_attorneys = <<>>
  /\ second_run = <<>>

ExtInit ==
  /\ epc = "call"
  /\ text \in TextsOf(MaxFragments)
  /\ party_filter \in PartyFilters
  /\ pattern_no = 0
  /\ matches = <<>>
  /\ attorneys = <<>>
  /\ unique_attorneys = <<>>
  /\ second_run = <<>>

\* "if not text: return attorneys"
ExtEmptyText ==
  /\ epc = "call" /\ text = ""
  /\ epc' = "return"
  /\ unique_attorneys' = attorneys
  /\ UNCHANGED <<text, party_filter, pattern_no, matches, attorneys,
                 second_run, erest>>

\* "for pattern in patterns: matches = re.finditer(...)": the first pattern
\* on entry, the next one when the matches of the current one are used up
ExtNextPattern ==
  /\ \/ epc = "call" /\ text # ""
     \/ epc = "scan" /\ matches = <<>> /\ pattern_no < Len(patterns)
  /\ epc' = "scan"
  /\ pattern_no' = pattern_no + 1
  /\ matches' = finditer(patterns[pattern_no + 1].re, text)
  /\ UNCHANGED <<text, party_filter, attorneys, unique_attorneys, second_run,
                 erest>>

\* "for match in matches": one match is accepted or discarded
ExtMatch ==
  /\ epc = "scan" /\ matches # <<>>
  /\ attorneys' = attorneys \o
       ProcessMatch(patterns[pattern_no].src, Head(matches), party_filter)
  /\ matches' = Tail(matches)
  /\ UNCHANGED <<epc, text, party_filter, pattern_no, unique_attorneys,
                 second_run, erest>>

\* after the last pattern: deduplicate and return
ExtReturn ==
  /\ epc = "scan" /\ matches = <<>> /\ pattern_no = Len(patterns)
  /\ unique_attorneys' = Dedup(attorneys)
  /\ epc' = "return"
  /\ UNCHANGED <<text, party_filter, pattern_no, matches, attorneys,
                 second_run, erest>>

\* the extractor is run a second time on the same text and party filter
ExtSecondRun ==
  /\ epc = "return"
  /\ second_run' = extract_attorneys_from_text(text, party_filter)
  /\ epc' = "again"
  /\ UNCHANGED <<text, party_filter, pattern_no, matches, attorneys,
                 unique_attorneys, erest>>

(***************************************************************************)
(* fetch_parties_and_attorneys                                             *)
(* JSON values of the parties payload carry a tag t: a key that is absent  *)
(* ("missing"), null, a string, a list or an object.                       *)
(***************************************************************************)
JMissing == [t |-> "missing"]
JNull == [t |-> "null"]
JStr(v) == [t |-> "str", v |-> v]
JList(v) == [t |-> "list", v |-> v]
JAttorney(name, contact_raw) ==
  [t |-> "obj", name |-> name, contact_raw |-> contact_raw]
JParty(name, party_types, attys) ==
  [t |-> "obj", name |-> name, party_types |-> party_types, attorneys |-> attys]

\* obj.get(key, default) for a string-valued key
GetStr(value, default) == IF value.t = "missing" THEN default ELSE value.v

\* party_type[0].get("name", "Unknown") if party_type else "Unknown", with
\* party_type = party.get("party_types", [{}])
PartyTypeName(party) ==
  IF party.party_types.t = "missing" THEN "Unknown"
  ELSE IF party.party_types.v = <<>> THEN "Unknown"
  ELSE GetStr(party.party_types.v[1].name, "Unknown")

\* mutant: a record is appended for an attorney without a name as well
RECURSIVE AttorneysLoop_NoNameTest(_, _, _, _)
AttorneysLoop_NoNameTest(party_name, party_type_name, attys, acc) ==
  With(<<attys, acc>>, LAMBDA a :
    IF a[1] = <<>> THEN [attorneys |-> a[2], raised |-> FALSE]
    ELSE IF Head(a[1]).t # "obj" THEN [attorneys |-> a[2], raised |-> TRUE]
    ELSE AttorneysLoop_NoNameTest(party_name, party_type_name, Tail(a[1]),
           Append(a[2],
                  AttorneyInfo(GetStr(Head(a[1]).name, ""),
                               "For " \o party_type_name,
                               GetStr(Head(a[1]).contact_raw, ""),
                               party_name, "docket"))))

\* the loop "for atty in party_attorneys": the records appended to acc, and
\* whether an attorney entry that is no object raised an exception
RECURSIVE AttorneysLoop(_, _, _, _)
AttorneysLoop(party_name, party_type_name, attys, acc) ==
  With(<<attys, acc>>, LAMBDA a :
    IF a[1] = <<>> THEN [attorneys |-> a[2], raised |-> FALSE]
    ELSE IF Head(a[1]).t # "obj" THEN [attorneys |-> a[2], raised |-> TRUE]
    ELSE With(GetStr(Head(a[1]).name, ""), LAMBDA atty_name :
           IF atty_name # ""
           THEN AttorneysLoop(party_name, party_type_name, Tail(a[1]),
                  Append(a[2],
                         AttorneyInfo(atty_name, "For " \o party_type_name,
                                      GetStr(Head(a[1]).contact_raw, ""),
                                      party_name, "docket")))
           ELSE AttorneysLoop(party_name, party_type_name, Tail(a[1]), a[2])))

\* One turn of "for party in results": attorneys after the party, and
\* whether the turn raised (iterating over a null attorneys value raises).
PartyStep(party, acc) ==
  IF party.attorneys.t = "null" THEN [attorneys |-> acc, raised |-> TRUE]
  ELSE AttorneysLoop(
         GetStr(party.name, "Unknown Party"), PartyTypeName(party),
         IF party.attorneys.t = "missing" THEN <<>> ELSE party.attorneys.v,
         acc)

\* data.get("results", [])
PartiesOf(reply) == IF reply.results.t = "missing" THEN <<>> ELSE reply.results.v

\* the loop over the parties; an exception ends it and the except clause
\* logs it, so that the records built so far are returned
RECURSIVE PartiesLoop(_, _)
PartiesLoop(parties, acc) ==
  With(<<parties, acc>>, LAMBDA a :
    IF a[1] = <<>> THEN a[2]
    ELSE With(PartyStep(Head(a[1]), a[2]), LAMBDA step :
           IF step.raised THEN step.attorneys
           ELSE PartiesLoop(Tail(a[1]), step.attorneys)))

\* mutant: the payload is read whatever the status of the response
fetch_parties_and_attorneys_AnyStatus(reply) ==
  IF reply.kind = "exception" THEN <<>>
  ELSE PartiesLoop(PartiesOf(reply), <<>>)

\* fetch_parties_and_attorneys as a whole, given the reply to its request
fetch_parties_and_attorneys(reply) ==
  IF reply.kind = "exception" THEN <<>>
  ELSE IF reply.status_code # 200 THEN <<>>
  ELSE PartiesLoop(PartiesOf(reply), <<>>)

\* replies of the parties endpoint
HttpException == [kind |-> "exception"]
HttpResponse(status_code, data_results) ==
  [kind |-> "response", status_code |-> status_code, results |-> data_results]

TenantUnion ==
  JParty(JStr("Tenant Union"), JList(<<[name |-> JStr("Plaintiff")]>>),
         JList(<<JAttorney(JStr("Al Roe"), JStr("Roe LLP"))>>))

AcmeCorp ==
  JParty(JStr("ACME Corp"), JList(<<[name |-> JStr("Defendant")]>>),
         JList(<<JAttorney(JStr("Di Fox"), JStr("Fox Law")),
                 JAttorney(JStr("Al Roe"), JStr(""))>>))

PartyShapes ==
  {TenantUnion, AcmeCorp,
   JParty(JStr("Bo Lee"), JList(<<[name |-> JStr("Appellee")]>>), JList(<<>>)),
   JParty(JMissing, JList(<<>>),
          JList(<<JAttorney(JStr(""), JStr("Nobody & Co")),
                  JAttorney(JStr("Cy Day"), JMissing),
                  JAttorney(JMissing, JStr("Lee PC"))>>)),
   JParty(JStr("Sam Doe"), JMissing,
          JList(<<JAttorney(JStr("Al Roe"), JStr("Roe LLP")),
                  JNull>>)),
   JParty(JStr("Jo Roe"), JList(<<[name |-> JMissing]>>), JNull)}

MaxParties == 2

RECURSIVE PartyListsOf(_)
PartyListsOf(n) ==
  IF n = 0 THEN {<<>>}
  ELSE PartyListsOf(n - 1)
         \cup {Append(ps, p) : ps \in PartyListsOf(n - 1), p \in PartyShapes}

DocketReplies ==
  {HttpResponse(200, JList(ps)) : ps \in PartyListsOf(MaxParties)}
    \cup {HttpResponse(200, JMissing), HttpResponse(404, JMissing),
          HttpResponse(500, JMissing), HttpException}

NoReply == [kind |-> "none"]

DocketIdle ==
  /\ dpc = "idle" /\ docket_reply = NoReply /\ party_no = 0
  /\ docket_attorneys = <<>>

\* attorneys = [] and the request is sent
DocketInit ==
  /\ dpc = "await" /\ docket_reply = NoReply /\ party_no = 0
  /\ docket_attorneys = <<>>

\* "response = await client.get(...)" raises: logged, attorneys returned
FetchPartiesException ==
  /\ dpc = "await"
  /\ docket_reply' = HttpException
  /\ dpc' = "return"
  /\ UNCHANGED <<party_no, docket_attorneys, drest>>

\* the response arrives: a status other than 200 returns attorneys at once
FetchPartiesResponse ==
  /\ dpc = "await"
  /\ \E reply \in DocketReplies :
       /\ reply.kind = "response"
       /\ docket_reply' = reply
       /\ dpc' = IF reply.status_code # 200 THEN "return" ELSE "loop"
  /\ party_no' = 1
  /\ UNCHANGED <<docket_attorneys, drest>>

\* one turn of "for party in results"
FetchPartiesParty ==
  /\ dpc = "loop" /\ party_no <= Len(PartiesOf(docket_reply))
  /\ LET step == PartyStep(PartiesOf(docket_reply)[party_no], docket_attorneys)
     IN /\ docket_attorneys' = step.attorneys
        /\ dpc' = IF step.raised THEN "return" ELSE "loop"
  /\ party_no' = party_no + 1
  /\ UNCHANGED <<docket_reply, drest>>

\* the loop is over: "return attorneys"
FetchPartiesReturn ==
  /\ dpc = "loop" /\ party_no > Len(PartiesOf(docket_reply))
  /\ dpc' = "return"
  /\ UNCHANGED <<docket_reply, party_no, docket_attorneys, drest>>

(***************************************************************************)
(* The per-attorney aggregation of search_with_attorney_extraction         *)
(* attorney_counts is a dict, which keeps its keys in insertion order: a   *)
(* sequence of entries, each with its key.                                 *)
(***************************************************************************)
KeyIndex(counts, name_key) ==
  IF \E i \in 1..Len(counts) : counts[i].key = name_key
  THEN CHOOSE i \in 1..Len(counts) : counts[i].key = name_key
  ELSE 0

\* mutant: case_count is set when the entry is created and left alone when
\* the name is seen again
FoldAttorney_CountsFirstOnly(counts, atty) ==
  With(Strip(Lower(atty.name)), LAMBDA name_key :
    With(IF KeyIndex(counts, name_key) = 0
         THEN Append(counts, [key |-> name_key, name |-> atty.name,
                              roles |-> {}, firms |-> {},
                              case_count |-> 1, sources |-> {}])
         ELSE counts,
         LAMBDA cs :
           With(KeyIndex(cs, name_key), LAMBDA k :
             [cs EXCEPT
                ![k].roles = IF atty.role \notin {None, ""}
                             THEN @ \cup {atty.role} ELSE @,
                ![k].firms = IF atty.firm \notin {None, ""}
                             THEN @ \cup {atty.firm} ELSE @,
                ![k].sources = @ \cup {atty.source}])))

\* mutant: the key is the lower-cased name with its surrounding whitespace
FoldAttorney_NoStrip(counts, atty) ==
  With(Lower(atty.name), LAMBDA name_key :
    With(IF KeyIndex(counts, name_key) = 0
         THEN Append(counts, [key |-> name_key, name |-> atty.name,
                              roles |-> {}, firms |-> {},
                              case_count |-> 0, sources |-> {}])
         ELSE counts,
         LAMBDA cs :
           With(KeyIndex(cs, name_key), LAMBDA k :
             [cs EXCEPT
                ![k].case_count = @ + 1,
                ![k].roles = IF atty.role \notin {None, ""}
                             THEN @ \cup {atty.role} ELSE @,
                ![k].firms = IF atty.firm \notin {None, ""}
                             THEN @ \cup {atty.firm} ELSE @,
                ![k].sources = @ \cup {atty.source}])))

\* one turn of "for atty in all_attorneys"
FoldAttorney(counts, atty) ==
  With(Strip(Lower(atty.name)), LAMBDA name_key :
    With(IF KeyIndex(counts, name_key) = 0
         THEN Append(counts, [key |-> name_key, name |-> atty.name,
                              roles |-> {}, firms |-> {},
                              case_count |-> 0, sources |-> {}])
         ELSE counts,
         LAMBDA cs :
           With(KeyIndex(cs, name_key), LAMBDA k :
             [cs EXCEPT
                ![k].case_count = @ + 1,
                ![k].roles = IF atty.role \notin {None, ""}
                             THEN @ \cup {atty.role} ELSE @,
                ![k].firms = IF atty.firm \notin {None, ""}
                             THEN @ \cup {atty.firm} ELSE @,
                ![k].sources = @ \cup {atty.source}])))

\* the whole loop over all_attorneys
RECURSIVE FoldAll(_, _)
FoldAll(counts, attys) ==
  With(<<counts, attys>>, LAMBDA a :
    IF a[2] = <<>> THEN a[1]
    ELSE FoldAll(FoldAttorney(a[1], Head(a[2])), Tail(a[2])))

\* mutant: among entries of equal case_count the later one comes first,
\* as in sorted(...)[::-1] of an ascending sort
InsertByCount_TiesReversed(ranked, entry) ==
  LET before == {i \in 1..Len(ranked) : ranked[i].case_count > entry.case_count}
      n == Cardinality(before)
  IN SubSeq(ranked, 1, n) \o <<entry>> \o SubSeq(ranked, n + 1, Len(ranked))

\* sorted() is stable, with reverse=True as well: an entry goes behind every
\* entry whose case_count is at least its own
InsertByCount(ranked, entry) ==
  LET before == {i \in 1..Len(ranked) : ranked[i].case_count >= entry.case_count}
      n == Cardinality(before)
  IN SubSeq(ranked, 1, n) \o <<entry>> \o SubSeq(ranked, n + 1, Len(ranked))

\* sorted(attorney_counts.values(), key=case_count, reverse=True)
RECURSIVE SortByCaseCount(_, _)
SortByCaseCount(ranked, values) ==
  With(<<ranked, values>>, LAMBDA a :
    IF a[2] = <<>> THEN a[1]
    ELSE SortByCaseCount(InsertByCount(a[1], Head(a[2])), Tail(a[2])))

\* The dict built for one entry.  list(v["roles"])[0] is whichever role the
\* set yields first, and the lists made of the sets have no determined
\* order: typical_role is any of the roles, firms and data_sources are sets.
UniqueAttorneyDicts(v) ==
  {[name |-> v.name, case_count |-> v.case_count, typical_role |-> r,
    firms |-> v.firms, data_sources |-> v.sources] :
     r \in IF v.roles = {} THEN {None} ELSE v.roles}

\* the lists unique_attorneys can be, given the sorted entries
RECURSIVE UniqueAttorneyLists(_)
UniqueAttorneyLists(sorted) ==
  IF sorted = <<>> THEN {<<>>}
  ELSE {<<d>> \o rest : d \in UniqueAttorneyDicts(Head(sorted)),
                        rest \in UniqueAttorneyLists(Tail(sorted))}

UniqueAttorneys(all) == UniqueAttorneyLists(SortByCaseCount(<<>>, FoldAll(<<>>, all)))

\* records of the kinds the three sources produce
AggRecords ==
  {AttorneyInfo("Al Roe", "From case record", None, None, "search_result"),
   AttorneyInfo(" AL ROE", "For Appellee", None, "Appellee", "opinion_text"),
   AttorneyInfo("Cy Day", "For Plaintiff", "", "Tenant Union", "docket"),
   AttorneyInfo("Di Fox", "For Defendant", "Fox Law", "ACME Corp", "docket")}

MaxRecords == 5

RECURSIVE RecordListsOf(_)
RecordListsOf(n) ==
  IF n = 0 THEN {<<>>}
  ELSE RecordListsOf(n - 1)
         \cup {Append(rs, r) : rs \in RecordListsOf(n - 1), r \in AggRecords}

AggIdle ==
  /\ apc = "idle" /\ attorneys_found = <<>> /\ fold_no = 0
  /\ attorney_counts = <<>> /\ ranking = <<>>

\* attorney_counts = {} with all_attorneys collected
AggInit ==
  /\ apc = "fold" /\ attorneys_found \in RecordListsOf(MaxRecords)
  /\ fold_no = 1 /\ attorney_counts = <<>> /\ ranking = <<>>

\* one turn of "for atty in all_attorneys"
AggFold ==
  /\ apc = "fold" /\ fold_no <= Len(attorneys_found)
  /\ attorney_counts' = FoldAttorney(attorney_counts, attorneys_found[fold_no])
  /\ fold_no' = fold_no + 1
  /\ UNCHANGED <<apc, attorneys_found, ranking, arest>>

\* the list comprehension over the sorted entries
AggRank ==
  /\ apc = "fold" /\ fold_no > Len(attorneys_found)
  /\ ranking' \in UniqueAttorneyLists(SortByCaseCount(<<>>, attorney_counts))
  /\ apc' = "done"
  /\ UNCHANGED <<attorneys_found, fold_no, attorney_counts, arest>>

(***************************************************************************)
(* fetch_opinion_text                                                      *)
(***************************************************************************)
ClusterResponse(status_code, sub_opinions) ==
  [kind |-> "response", status_code |-> status_code,
   sub_opinions |-> sub_opinions]
OpinionResponse(status_code, html_with_citations, plain_text, html) ==
  [kind |-> "response", status_code |-> status_code,
   html_with_citations |-> html_with_citations, plain_text |-> plain_text,
   html |-> html]

\* mutant: the status of the cluster response is not looked at
ClusterStep_AnyStatus(reply) ==
  IF reply.kind = "exception" THEN [next |-> "return"]
  ELSE IF reply.sub_opinions.t # "list" THEN [next |-> "return"]
  ELSE IF reply.sub_opinions.v = <<>> THEN [next |-> "return"]
  ELSE IF reply.sub_opinions.v[1].t # "str" THEN [next |-> "return"]
  ELSE IF reply.sub_opinions.v[1].v = "" THEN [next |-> "return"]
  ELSE [next |-> "get"]

\* The first half, up to the request for the opinion: "return" stands for
\* return None, "get" for the request to the first sub-opinion's URL.
ClusterStep(reply) ==
  IF reply.kind = "exception" THEN [next |-> "return"]
  ELSE IF reply.status_code # 200 THEN [next |-> "return"]
  ELSE IF reply.sub_opinions.t # "list" THEN [next |-> "return"]
  ELSE IF reply.sub_opinions.v = <<>> THEN [next |-> "return"]
  ELSE IF reply.sub_opinions.v[1].t # "str" THEN [next |-> "return"]
  ELSE IF reply.sub_opinions.v[1].v = "" THEN [next |-> "return"]
  ELSE [next |-> "get"]

\* a.get(k) or b: the first value that is a non-empty string
Truthy(value) == value.t = "str" /\ value.v # ""

\* re.sub(r'<[^>]+>', ' ', text) from character i on: a tag is a "<", the
\* characters up to the next ">", at least one, and that ">"
RECURSIVE StripTagsFrom(_, _)
StripTagsFrom(s, i) ==
  LET Close(p) == {q \in (p + 2)..Len(s) :
                     /\ SubSeq(s, q, q) = ">"
                     /\ \A k \in (p + 1)..(q - 1) : SubSeq(s, k, k) # ">"}
      Opens == {p \in i..Len(s) : SubSeq(s, p, p) = "<" /\ Close(p) # {}}
  IN IF Opens = {} THEN SubSeq(s, i, Len(s))
     ELSE LET p == CHOOSE x \in Opens : \A y \in Opens : x <= y
              q == CHOOSE x \in Close(p) : TRUE
          IN SubSeq(s, i, p - 1) \o " " \o StripTagsFrom(s, q + 1)

OpinionTextLimit == 50000

\* the second half: the value returned once the opinion reply is there
OpinionStep(reply) ==
  IF reply.kind = "exception" THEN None
  ELSE IF reply.status_code # 200 THEN None
  ELSE With(IF Truthy(reply.html_with_citations)
              THEN reply.html_with_citations.v
            ELSE IF Truthy(reply.plain_text) THEN reply.plain_text.v
            ELSE IF Truthy(reply.html) THEN reply.html.v
            ELSE "",
            LAMBDA txt :
              With(CollapseSpaces(StripTagsFrom(txt, 1)), LAMBDA clean :
                IF Len(clean) <= OpinionTextLimit THEN clean
                ELSE SubSeq(clean, 1, OpinionTextLimit)))

(***************************************************************************)
(* search_with_attorney_extraction                                         *)
(***************************************************************************)
Min(a, b) == IF a <= b THEN a ELSE b

\* a search result without docket_id or cluster_id: result.get gives None,
\* which "if docket_id" treats as it treats 0
NoId == 0

\* A search result with its descriptive fields as the search endpoint
\* gives them; the keys case_name, date_filed and court_id are not in it.
SearchResult(attorney, docket_id, cluster_id) ==
  [attorney |-> attorney, docket_id |-> docket_id, cluster_id |-> cluster_id,
   caseName |-> JStr("Roe v. Doe"), dateFiled |-> JStr("2020-01-02"),
   court |-> JStr("Court of Appeal"),
   citation |-> JList(<<JStr("1 Cal. 2")>>),
   snippet |-> JStr("the <mark>tenant</mark> won"),
   absolute_url |-> JStr("/opinion/7/roe-v-doe/")]

\* result.get(key, default) where the default is a string
GetOr(value, default) == IF value.t = "missing" THEN JStr(default) ELSE value

\* the value Python holds for a JSON string or null
PyValue(value) == IF value.t = "str" THEN value.v ELSE None

\* str.startswith
StartsWith(str, prefix) ==
  Len(str) >= Len(prefix) /\ SubSeq(str, 1, Len(prefix)) = prefix

\* re.sub(r'<[^>]+>', repl, text) from character i on
RECURSIVE ReSubTags(_, _, _)
ReSubTags(str, i, repl) ==
  LET Close(p) == {q \in (p + 2)..Len(str) :
                     /\ SubSeq(str, q, q) = ">"
                     /\ \A k \in (p + 1)..(q - 1) : SubSeq(str, k, k) # ">"}
      Opens == {p \in i..Len(str) : SubSeq(str, p, p) = "<" /\ Close(p) # {}}
  IN IF Opens = {} THEN SubSeq(str, i, Len(str))
     ELSE LET p == CHOOSE x \in Opens : \A y \in Opens : x <= y
              q == CHOOSE x \in Close(p) : TRUE
          IN SubSeq(str, i, p - 1) \o repl \o ReSubTags(str, q + 1, repl)

SnippetLimit == 300

\* citation = citations[0] if isinstance(citations, list) and citations
\* else None
CitationOf(result) ==
  IF result.citation.t = "list" /\ result.citation.v # <<>>
  THEN result.citation.v[1] ELSE JNull

\* absolute_url as the loop body leaves it
AbsoluteUrlOf(result) ==
  With(GetOr(result.absolute_url, ""), LAMBDA u :
    IF Truthy(u) /\ ~StartsWith(u.v, "http")
    THEN JStr("https://www.courtlistener.com" \o u.v)
    ELSE IF ~Truthy(u) /\ result.cluster_id # NoId
    THEN JStr("https://www.courtlistener.com/opinion/"
                \o ToString(result.cluster_id) \o "/")
    ELSE u)

\* snippet with its tags removed, cut to 300 characters
SnippetOf(result) ==
  With(GetOr(result.snippet, ""), LAMBDA sn :
    IF Truthy(sn)
    THEN With(ReSubTags(sn.v, 1, ""), LAMBDA plain :
           JStr(SubSeq(plain, 1, Min(SnippetLimit, Len(plain)))))
    ELSE sn)

\* the arguments of CaseWithAttorneys(...), as JSON values
CaseFields(result) ==
  [case_name |-> GetOr(result.caseName, "Unknown Case"),
   citation |-> CitationOf(result),
   date_filed |-> GetOr(result.dateFiled, "Unknown"),
   court |-> GetOr(result.court, "Unknown Court"),
   url |-> AbsoluteUrlOf(result),
   outcome_summary |-> SnippetOf(result)]

\* The model class accepts the arguments: case_name, date_filed, court and
\* url are str, citation and outcome_summary Optional[str].
Validates(fields) ==
  /\ fields.case_name.t = "str" /\ fields.date_filed.t = "str"
  /\ fields.court.t = "str" /\ fields.url.t = "str"
  /\ fields.citation.t \in {"str", "null"}
  /\ fields.outcome_summary.t \in {"str", "null"}

CaseWithAttorneys(result, attys) ==
  With(CaseFields(result), LAMBDA f :
    [case_name |-> PyValue(f.case_name), citation |-> PyValue(f.citation),
     date_filed |-> PyValue(f.date_filed), court |-> PyValue(f.court),
     url |-> PyValue(f.url), outcome_summary |-> PyValue(f.outcome_summary),
     attorneys |-> attys, docket_id |-> result.docket_id,
     cluster_id |-> result.cluster_id])

\* party_aliases of the per-case filter
ReconcilerPartyAliases ==
  <<<<"appellant", <<"appellant", "plaintiff", "petitioner">>>>,
    <<"appellee", <<"appellee", "respondent", "defendant">>>>,
    <<"tenant", <<"appellant", "plaintiff", "petitioner", "tenant">>>>,
    <<"landlord", <<"appellee", "respondent", "defendant", "landlord">>>>>>

\* a string that is neither None nor empty
NonEmpty(s) == s # None /\ s # ""

\* mutant: records of the search result are tested like the others
FilterByParty_NoExemption(attys, pf) ==
  IF pf # "all" /\ attys # <<>>
  THEN With(DictGet(ReconcilerPartyAliases, Lower(pf), <<Lower(pf)>>),
         LAMBDA filter_terms :
           SelectSeq(attys, LAMBDA a :
             \/ NonEmpty(a.party_represented)
                  /\ AnyIn(filter_terms, Lower(a.party_represented))
             \/ NonEmpty(a.role) /\ AnyIn(filter_terms, Lower(a.role))))
  ELSE attys

\* mutant: of the records kept, only the first of each name stays, so that
\* a later source cannot repeat a name an earlier source gave
FilterByParty_OncePerName(attys, pf) ==
  IF pf # "all" /\ attys # <<>>
  THEN With(DictGet(ReconcilerPartyAliases, Lower(pf), <<Lower(pf)>>),
         LAMBDA filter_terms :
           Dedup(SelectSeq(attys, LAMBDA a :
             \/ NonEmpty(a.party_represented)
                  /\ AnyIn(filter_terms, Lower(a.party_represented))
             \/ NonEmpty(a.role) /\ AnyIn(filter_terms, Lower(a.role))
             \/ a.source = "search_result")))
  ELSE Dedup(attys)

\* "if party_filter != "all" and case_attorneys": the list comprehension
FilterByParty(attys, pf) ==
  IF pf # "all" /\ attys # <<>>
  THEN With(DictGet(ReconcilerPartyAliases, Lower(pf), <<Lower(pf)>>),
         LAMBDA filter_terms :
           SelectSeq(attys, LAMBDA a :
             \/ NonEmpty(a.party_represented)
                  /\ AnyIn(filter_terms, Lower(a.party_represented))
             \/ NonEmpty(a.role) /\ AnyIn(filter_terms, Lower(a.role))
             \/ a.source = "search_result"))
  ELSE attys

\* where the loop body goes once the docket step is over:
\* "if cluster_id and len(case_attorneys) < 2"
\* mutant: the cluster is requested however many records were collected
AfterDocket_AnyCount(result, attys) ==
  IF result.cluster_id # NoId THEN "cluster" ELSE "finish"

AfterDocket(result, attys) ==
  IF result.cluster_id # NoId /\ Len(attys) < 2 THEN "cluster" ELSE "finish"


\* replies of the upstream service offered to one request
SearchHit == SearchResult("Al Roe", 11, 7)
DocketOnly == SearchResult("", 11, NoId)
ClusterOnly == SearchResult("", NoId, 7)
\* a result with none of the optional keys
Bare ==
  [attorney |-> "", docket_id |-> NoId, cluster_id |-> NoId,
   caseName |-> JMissing, dateFiled |-> JMissing, court |-> JMissing,
   citation |-> JMissing, snippet |-> JMissing, absolute_url |-> JMissing]
\* a result whose filing date is null
NullDate == [SearchResult("", NoId, NoId) EXCEPT !.dateFiled = JNull]
\* a result whose attorney string is laid out loosely
Untidy == SearchResult(" Al  Roe,\n", NoId, NoId)
ResultShapes == {SearchHit, DocketOnly, ClusterOnly, Bare, NullDate, Untidy}

MaxResults == 2

RECURSIVE ResultListsOf(_)
ResultListsOf(n) ==
  IF n = 0 THEN {<<>>}
  ELSE ResultListsOf(n - 1)
         \cup {Append(rs, r) : rs \in ResultListsOf(n - 1), r \in ResultShapes}

\* httpx.TimeoutException, as against any other exception
HttpTimeout == [kind |-> "timeout"]

SearchFailures ==
  {[kind |-> "response", status_code |-> 429],
   [kind |-> "response", status_code |-> 503], HttpTimeout, HttpException}

\* mutant: the last limit results are taken
Truncate_Last(found, limit) ==
  SubSeq(found, Len(found) - Min(limit, Len(found)) + 1, Len(found))

\* mutant: the slice takes one result more than the limit
Truncate_OneMore(found, limit) ==
  SubSeq(found, 1, Min(limit + 1, Len(found)))

\* found[:limit]
Truncate(found, limit) == SubSeq(found, 1, Min(limit, Len(found)))

PipeDocketReplies ==
  {HttpResponse(200, JList(<<TenantUnion>>)),
   HttpResponse(200, JList(<<TenantUnion, AcmeCorp>>)),
   HttpResponse(404, JList(<<TenantUnion>>)), HttpException}

OpinionUrl == "https://www.courtlistener.com/api/rest/v4/opinions/7/"

ClusterReplies ==
  {ClusterResponse(404, JList(<<JStr(OpinionUrl)>>)),
   ClusterResponse(200, JList(<<JStr(OpinionUrl)>>)),
   ClusterResponse(200, JList(<<>>))}

OpinionReplies ==
  {OpinionResponse(503, JMissing, JMissing, JMissing),
   OpinionResponse(200, JStr("<p>Al Roe, for Appellant.</p><p>Di Fox, for Appellee.</p>"),
                   JStr("unused"), JMissing),
   OpinionResponse(200, JStr(""), JStr("Cy  Day, for Plaintiff.\n"), JNull)}

PipeFilters == {"all", "tenant", "defendant"}

\* the requests offered: party filter and jurisdiction (None when the
\* request names none), all with the same query text
Query == "tenant eviction"
RequestKinds ==
  {<<"all", None>>, <<"tenant", "CA">>, <<"defendant", "Guam">>}
PipeRequests ==
  {[query |-> Query, jurisdiction |-> k[2], party_filter |-> k[1],
    limit |-> l] : k \in RequestKinds, l \in 1..MaxResults}

\* mutant: the filter clause is appended without the space
SearchQuery_NoSpace(query, jur) ==
  IF jur # None /\ jur # ""
  THEN query \o build_court_filter_query(jur)
  ELSE query

\* search_query: the query, and the court filter "if jurisdiction"
SearchQuery(query, jur) ==
  IF jur # None /\ jur # ""
  THEN query \o " " \o build_court_filter_query(jur)
  ELSE query

\* The extractor applied to the text of each offered opinion reply, under
\* each offered filter: "if opinion_text: text_attorneys = ...".
TextAttorneys ==
  [reply \in OpinionReplies, pf \in PipeFilters |->
     IF NonEmpty(OpinionStep(reply))
     THEN extract_attorneys_from_text(OpinionStep(reply), pf)
     ELSE <<>>] @@ <<>>

NoResponse == [kind |-> "none"]

PipeIdle ==
  /\ pc = "idle"
  /\ request = [query |-> "", jurisdiction |-> None, party_filter |-> "all",
                limit |-> 1]
  /\ results = <<>> /\ case_no = 0 /\ case_attorneys = <<>>
  /\ cluster_reply = NoReply /\ cases_with_attorneys = <<>>
  /\ all_attorneys = <<>> /\ lookups = <<>> /\ response = NoResponse
  /\ search_reply = NoReply /\ parties_reply = NoReply
  /\ opinion_reply = NoReply /\ calls = <<>>

\* all_attorneys = [], cases_with_attorneys = [] and the search request sent
PipeInit ==
  /\ pc = "search"
  /\ request \in PipeRequests
  /\ results = <<>> /\ case_no = 0 /\ case_attorneys = <<>>
  /\ cluster_reply = NoReply /\ cases_with_attorneys = <<>>
  /\ all_attorneys = <<>> /\ lookups = <<>> /\ response = NoResponse
  /\ search_reply = NoReply /\ parties_reply = NoReply
  /\ opinion_reply = NoReply /\ calls = <<>>

\* mutant: every request made for a case is made a second time
Called_Repeated(next_pc) ==
  IF next_pc \in {"docket", "cluster", "opinion"}
  THEN calls \o <<<<next_pc, case_no>>, <<next_pc, case_no>>>>
  ELSE calls

\* the log of the requests made for the cases, with the one that the step
\* to next_pc makes
Called(next_pc) ==
  IF next_pc \in {"docket", "cluster", "opinion"}
  THEN Append(calls, <<next_pc, case_no>>)
  ELSE calls

\* "except Exception" of search_with_attorney_extraction
InternalError == [kind |-> "HTTPException", status_code |-> 500]

\* mutant: every failure of the search request is reported as status 500
SearchFailure_Always500(reply) == InternalError

\* the except clauses: raise_for_status turns an error status into an
\* HTTPException with that status, any other exception becomes status 500
SearchFailure(reply) ==
  IF reply.kind = "response"
  THEN [kind |-> "HTTPException", status_code |-> reply.status_code]
  ELSE InternalError

\* the search request fails
SearchFails ==
  /\ pc = "search"
  /\ \E reply \in SearchFailures :
       /\ search_reply' = reply
       /\ response' = SearchFailure(reply)
  /\ pc' = "error"
  /\ UNCHANGED <<request, results, case_no, case_attorneys, cluster_reply,
                 cases_with_attorneys, all_attorneys, lookups, parties_reply,
                 opinion_reply, calls, prest>>

\* results = data.get("results", [])[:limit]
SearchReturns ==
  /\ pc = "search"
  /\ \E found \in ResultListsOf(MaxResults) :
       /\ search_reply' = [kind |-> "response", status_code |-> 200,
                           results |-> found]
       /\ results' = Truncate(found, request.limit)
  /\ case_no' = 1
  /\ pc' = "case"
  /\ UNCHANGED <<request, case_attorneys, cluster_reply, cases_with_attorneys,
                 all_attorneys, lookups, response, parties_reply,
                 opinion_reply, calls, prest>>

\* "for result in results", up to the first request made for the case:
\* Method 1 and the tests that lead to the docket or the cluster request
CaseStart ==
  /\ pc = "case" /\ case_no <= Len(results)
  /\ LET result == results[case_no]
         attys == IF result.attorney # ""
                  THEN <<AttorneyInfo(result.attorney, "From case record",
                                      None, None, "search_result")>>
                  ELSE <<>>
         next_pc == IF result.docket_id # NoId THEN "docket"
                    ELSE AfterDocket(result, attys)
     IN /\ case_attorneys' = attys
        /\ pc' = next_pc
        /\ calls' = Called(next_pc)
  /\ cluster_reply' = NoReply
  /\ parties_reply' = NoReply
  /\ opinion_reply' = NoReply
  /\ UNCHANGED <<request, results, case_no, cases_with_attorneys,
                 all_attorneys, lookups, response, search_reply, prest>>

\* Method 2: fetch_parties_and_attorneys returns
DocketReturns ==
  /\ pc = "docket"
  /\ \E reply \in PipeDocketReplies :
       LET attys == case_attorneys \o fetch_parties_and_attorneys(reply)
           next_pc == AfterDocket(results[case_no], attys)
       IN /\ parties_reply' = reply
          /\ case_attorneys' = attys
          /\ pc' = next_pc
          /\ calls' = Called(next_pc)
  /\ UNCHANGED <<request, results, case_no, cluster_reply,
                 cases_with_attorneys, all_attorneys, lookups, response,
                 search_reply, opinion_reply, prest>>

\* Method 3, first request of fetch_opinion_text: the cluster reply
ClusterReturns ==
  /\ pc = "cluster"
  /\ \E reply \in ClusterReplies :
       LET next_pc == IF ClusterStep(reply).next = "get" THEN "opinion"
                      ELSE "finish"
       IN /\ cluster_reply' = reply
          /\ pc' = next_pc
          /\ calls' = Called(next_pc)
  /\ UNCHANGED <<request, results, case_no, case_attorneys,
                 cases_with_attorneys, all_attorneys, lookups, response,
                 search_reply, parties_reply, opinion_reply, prest>>

\* Method 3, second request: the opinion reply, and the extraction if a
\* text came back
OpinionReturns ==
  /\ pc = "opinion"
  /\ \E reply \in OpinionReplies :
       /\ opinion_reply' = reply
       /\ case_attorneys' =
            case_attorneys \o TextAttorneys[reply, request.party_filter]
  /\ pc' = "finish"
  /\ UNCHANGED <<request, results, case_no, cluster_reply,
                 cases_with_attorneys, all_attorneys, lookups, response,
                 search_reply, parties_reply, calls, prest>>

\* The rest of the loop body: the party filter, the case record and
\* all_attorneys.extend(case_attorneys).  Arguments that the model class
\* rejects raise an exception, which the "except Exception" clause turns
\* into an HTTPException with status 500.
CaseFinish ==
  /\ pc = "finish"
  /\ LET kept == FilterByParty(case_attorneys, request.party_filter)
     IN IF Validates(CaseFields(results[case_no]))
        THEN /\ cases_with_attorneys' =
                  Append(cases_with_attorneys,
                         CaseWithAttorneys(results[case_no], kept))
             /\ all_attorneys' = all_attorneys \o kept
             /\ lookups' = Append(lookups, [collected |-> case_attorneys,
                                            docket |-> parties_reply,
                                            cluster |-> cluster_reply,
                                            opinion |-> opinion_reply])
             /\ case_no' = case_no + 1
             /\ pc' = "case"
             /\ UNCHANGED response
        ELSE /\ response' = InternalError
             /\ pc' = "error"
             /\ UNCHANGED <<cases_with_attorneys, all_attorneys, lookups,
                            case_no>>
  /\ UNCHANGED <<request, results, case_attorneys, cluster_reply,
                 search_reply, parties_reply, opinion_reply, calls, prest>>

\* after the loop: the aggregation and the response
Respond ==
  /\ pc = "case" /\ case_no > Len(results)
  /\ \E unique \in UniqueAttorneys(all_attorneys) :
       response' = [kind |-> "AttorneySearchResponse",
                    success |-> TRUE,
                    cases_analyzed |-> Len(results),
                    attorneys_found |-> all_attorneys,
                    cases_with_attorneys |-> cases_with_attorneys,
                    unique_attorneys |-> unique,
                    query_used |-> SearchQuery(request.query,
                                               request.jurisdiction),
                    party_filter |-> request.party_filter]
  /\ pc' = "done"
  /\ UNCHANGED <<request, results, case_no, case_attorneys, cluster_reply,
                 cases_with_attorneys, all_attorneys, lookups, search_reply,
                 parties_reply, opinion_reply, calls, prest>>

(***************************************************************************)
(* search_courtlistener                                                    *)
(***************************************************************************)
\* str.replace(old, new)
RECURSIVE Replace(_, _, _)
Replace(str, old, new) ==
  LET Hits == {i \in 1..(Len(str) - Len(old) + 1) :
                 SubSeq(str, i, i + Len(old) - 1) = old}
  IN IF Hits = {} THEN str
     ELSE LET i == CHOOSE x \in Hits : \A y \in Hits : x <= y
          IN SubSeq(str, 1, i - 1) \o new
               \o Replace(SubSeq(str, i + Len(old), Len(str)), old, new)

SummaryLimit == 500

\* citations[0] if it is a non-empty list, citations if it is a string
PlainCitationOf(result) ==
  IF result.citation.t = "list" /\ result.citation.v # <<>>
  THEN result.citation.v[1]
  ELSE IF result.citation.t = "str" THEN result.citation ELSE JNull

\* the snippet with its marks turned into asterisks, cut to 500 characters;
\* summary is None when there is no snippet
PlainSummaryOf(result) ==
  With(GetOr(result.snippet, ""), LAMBDA sn :
    IF Truthy(sn)
    THEN With(Replace(Replace(sn.v, "<mark>", "**"), "</mark>", "**"),
           LAMBDA marked :
             JStr(IF Len(marked) > SummaryLimit
                  THEN SubSeq(marked, 1, SummaryLimit) \o "..."
                  ELSE marked))
    ELSE JNull)

\* url=absolute_url if absolute_url else "https://www.courtlistener.com"
PlainUrlOf(result) ==
  With(GetOr(result.absolute_url, ""), LAMBDA u :
    IF Truthy(u) /\ ~StartsWith(u.v, "http")
    THEN JStr("https://www.courtlistener.com" \o u.v)
    ELSE IF Truthy(u) THEN u
    ELSE IF result.cluster_id # NoId
    THEN JStr("https://www.courtlistener.com/opinion/"
                \o ToString(result.cluster_id) \o "/")
    ELSE JStr("https://www.courtlistener.com"))

\* the arguments of CaseResult(...), as JSON values
PlainCaseFields(result) ==
  [case_name |-> GetOr(result.caseName, "Unknown Case"),
   citation |-> PlainCitationOf(result),
   date_filed |-> GetOr(result.dateFiled, "Unknown"),
   court |-> GetOr(result.court, "Unknown Court"),
   url |-> PlainUrlOf(result),
   outcome_summary |-> PlainSummaryOf(result)]

CaseResult(result) ==
  With(PlainCaseFields(result), LAMBDA f :
    [case_name |-> PyValue(f.case_name), citation |-> PyValue(f.citation),
     date_filed |-> PyValue(f.date_filed), court |-> PyValue(f.court),
     court_id |-> None, summary |-> PyValue(f.outcome_summary),
     url |-> PyValue(f.url)])

PlainRequests ==
  {[query |-> Query, jurisdiction |-> j, limit |-> l] :
     j \in {None, "CA"}, l \in 1..MaxResults}

PlainIdle ==
  /\ spc = "idle"
  /\ plain_request = [query |-> "", jurisdiction |-> None, limit |-> 1]
  /\ plain_reply = NoReply /\ plain_response = NoResponse

\* the search request is sent
PlainInit ==
  /\ spc = "search" /\ plain_request \in PlainRequests
  /\ plain_reply = NoReply /\ plain_response = NoResponse

\* the except clauses: the upstream status, 504 for a timeout, 500 for any
\* other exception
PlainSearchFailure(reply) ==
  [kind |-> "HTTPException",
   status_code |-> IF reply.kind = "response" THEN reply.status_code
                   ELSE IF reply.kind = "timeout" THEN 504
                   ELSE 500]

\* the search request fails
PlainSearchFails ==
  /\ spc = "search"
  /\ \E reply \in SearchFailures :
       /\ plain_reply' = reply
       /\ plain_response' = PlainSearchFailure(reply)
  /\ spc' = "error"
  /\ UNCHANGED <<plain_request, srest>>

\* the loop over data.get("results", [])[:limit] and the response; arguments
\* that the model class rejects raise an exception, which becomes status 500
PlainSearchReturns ==
  /\ spc = "search"
  /\ \E found \in ResultListsOf(MaxResults) :
       LET shown == Truncate(found, plain_request.limit)
       IN /\ plain_reply' = [kind |-> "response", status_code |-> 200,
                             results |-> found]
          /\ IF \A i \in 1..Len(shown) : Validates(PlainCaseFields(shown[i]))
             THEN /\ plain_response' =
                       [kind |-> "CaseSearchResponse",
                        success |-> TRUE,
                        cases |-> [i \in 1..Len(shown) |-> CaseResult(shown[i])],
                        query_used |-> SearchQuery(plain_request.query,
                                                   plain_request.jurisdiction)]
                  /\ spc' = "done"
             ELSE /\ plain_response' = InternalError
                  /\ spc' = "error"
  /\ UNCHANGED <<plain_request, srest>>

(***************************************************************************)
(* build_verification_url and verify_attorney                              *)
(***************************************************************************)
\* STATE_BAR_INFO as (code, entry) pairs
STATE_BAR_INFO ==
  <<
    <<"AL",
      [name |-> "Alabama State Bar",
       url |-> "https://www.alabar.org/for-the-public/find-a-lawyer/",
       instructions |-> "Search by name or bar number"]>>,
    <<"AK",
      [name |-> "Alaska Bar Association",
       url |-> "https://www.alaskabar.org/attorney-directory/",
       instructions |-> "Search by name or bar number"]>>,
    <<"AZ",
      [name |-> "State Bar of Arizona",
       url |-> "https://www.azbar.org/for-the-public/find-a-lawyer/",
       instructions |-> "Search by name or bar number"]>>,
    <<"AR",
      [name |-> "Arkansas Bar Association",
       url |-> "https://www.arkbar.com/for-the-public/lawyer-search",
       instructions |-> "Search by name"]>>,
    <<"CA",
      [name |-> "State Bar of California",
       url |-> "https://apps.calbar.ca.gov/attorney/Licensee/Detail/",
       instructions |-> "Add the bar number to the end of the URL, or search at calbar.ca.gov"]>>,
    <<"CO",
      [name |-> "Colorado Supreme Court Office of Attorney Regulation",
       url |-> "https://www.coloradosupremecourt.com/Search/AttSearch.asp",
       instructions |-> "Search by name or registration number"]>>,
    <<"CT",
      [name |-> "Connecticut Bar Association",
       url |-> "https://www.jud.ct.gov/attorneyfirminquiry/",
       instructions |-> "Search by name or juris number"]>>,
    <<"DE",
      [name |-> "Delaware State Bar Association",
       url |-> "https://courts.delaware.gov/forms/download.aspx?id=39492",
       instructions |-> "Search by name"]>>,
    <<"DC",
      [name |-> "District of Columbia Bar",
       url |-> "https://www.dcbar.org/membership/members",
       instructions |-> "Search by name or bar number"]>>,
    <<"FL",
      [name |-> "The Florida Bar",
       url |-> "https://www.floridabar.org/directories/find-mbr/",
       instructions |-> "Search by name or bar number"]>>,
    <<"GA",
      [name |-> "State Bar of Georgia",
       url |-> "https://www.gabar.org/membersearchresults.cfm",
       instructions |-> "Search by name or bar number"]>>,
    <<"HI",
      [name |-> "Hawaii State Bar Association",
       url |-> "https://hsba.org/HSBA/For_the_Public/Find_a_Lawyer/HSBA/FOR_THE_PUBLIC/Find_a_Lawyer.aspx",
       instructions |-> "Search by name"]>>,
    <<"ID",
      [name |-> "Idaho State Bar",
       url |-> "https://isb.idaho.gov/licensing/attorney-roster/",
       instructions |-> "Search by name"]>>,
    <<"IL",
      [name |-> "ARDC Illinois",
       url |-> "https://www.iardc.org/lawyersearch.asp",
       instructions |-> "Search by name or registration number"]>>,
    <<"IN",
      [name |-> "Indiana Supreme Court Roll of Attorneys",
       url |-> "https://courtapps.in.gov/rollofattorneys/",
       instructions |-> "Search by name or attorney number"]>>,
    <<"IA",
      [name |-> "Iowa Judicial Branch",
       url |-> "https://www.iacourtcommissions.org/iowaattorney/attorney.do",
       instructions |-> "Search by name or bar number"]>>,
    <<"KS",
      [name |-> "Kansas Bar Association",
       url |-> "https://www.kscourts.org/attorney",
       instructions |-> "Search by name or bar number"]>>,
    <<"KY",
      [name |-> "Kentucky Bar Association",
       url |-> "https://www.kybar.org/search/custom.asp?id=2972",
       instructions |-> "Search by name or bar number"]>>,
    <<"LA",
      [name |-> "Louisiana State Bar Association",
       url |-> "https://www.lsba.org/Public/FindLawyer.aspx",
       instructions |-> "Search by name or bar number"]>>,
    <<"ME",
      [name |-> "Maine Board of Overseers of the Bar",
       url |-> "https://www.mebaroverseers.org/attorney_search.html",
       instructions |-> "Search by name or bar number"]>>,
    <<"MD",
      [name |-> "Maryland Courts Attorney Search",
       url |-> "https://mdcourts.gov/attygrievance/attorneysearch",
       instructions |-> "Search by name or ID"]>>,
    <<"MA",
      [name |-> "Massachusetts Board of Bar Overseers",
       url |-> "https://www.massbbo.org/AttorneySearch",
       instructions |-> "Search by name or BBO number"]>>,
    <<"MI",
      [name |-> "State Bar of Michigan",
       url |-> "https://www.michbar.org/member/MemberDirectory",
       instructions |-> "Search by name or P number"]>>,
    <<"MN",
      [name |-> "Minnesota Lawyer Registration",
       url |-> "https://www.mncourts.gov/Find-a-Lawyer.aspx",
       instructions |-> "Search by name or ID"]>>,
    <<"MS",
      [name |-> "Mississippi Bar",
       url |-> "https://www.msbar.org/for-the-public/attorney-directory/",
       instructions |-> "Search by name or bar number"]>>,
    <<"MO",
      [name |-> "Missouri Bar",
       url |-> "https://mobar.org/public/AttorneyDirectorySearch.aspx",
       instructions |-> "Search by name or bar number"]>>,
    <<"MT",
      [name |-> "State Bar of Montana",
       url |-> "https://www.montanabar.org/page/FindLegalHelp",
       instructions |-> "Search by name"]>>,
    <<"NE",
      [name |-> "Nebraska State Bar Association",
       url |-> "https://www.nebar.com/search/custom.asp?id=2040",
       instructions |-> "Search by name"]>>,
    <<"NV",
      [name |-> "State Bar of Nevada",
       url |-> "https://nvbar.org/member-services/member-directory/",
       instructions |-> "Search by name or bar number"]>>,
    <<"NH",
      [name |-> "New Hampshire Bar Association",
       url |-> "https://www.nhbar.org/lawyer-referral-service/",
       instructions |-> "Search by name"]>>,
    <<"NJ",
      [name |-> "New Jersey Courts Attorney Search",
       url |-> "https://portal.njcourts.gov/webcivilcj/CJWebApp/pages/showAttorneyInfo.faces",
       instructions |-> "Search by name or ID"]>>,
    <<"NM",
      [name |-> "State Bar of New Mexico",
       url |-> "https://www.sbnm.org/For-Public/Find-A-Lawyer",
       instructions |-> "Search by name"]>>,
    <<"NY",
      [name |-> "New York Courts Attorney Search",
       url |-> "https://iapps.courts.state.ny.us/attorneyservices/search",
       instructions |-> "Search by name or registration number"]>>,
    <<"NC",
      [name |-> "North Carolina State Bar",
       url |-> "https://www.ncbar.gov/for-the-public/find-a-lawyer/",
       instructions |-> "Search by name or bar number"]>>,
    <<"ND",
      [name |-> "State Bar Association of North Dakota",
       url |-> "https://www.sband.org/search/custom.asp?id=5512",
       instructions |-> "Search by name"]>>,
    <<"OH",
      [name |-> "Ohio Supreme Court Attorney Directory",
       url |-> "https://www.supremecourt.ohio.gov/AttorneySearch/",
       instructions |-> "Search by name or registration number"]>>,
    <<"OK",
      [name |-> "Oklahoma Bar Association",
       url |-> "https://www.okbar.org/freelegalinfo/findingalawyer/",
       instructions |-> "Search by name or bar number"]>>,
    <<"OR",
      [name |-> "Oregon State Bar",
       url |-> "https://www.osbar.org/members/membersearch.asp",
       instructions |-> "Search by name or bar number"]>>,
    <<"PA",
      [name |-> "Pennsylvania Bar Association",
       url |-> "https://www.padisciplinaryboard.org/for-the-public/find-attorney",
       instructions |-> "Search by name or ID"]>>,
    <<"RI",
      [name |-> "Rhode Island Bar Association",
       url |-> "https://www.ribar.com/for-the-public/find-a-lawyer/",
       instructions |-> "Search by name"]>>,
    <<"SC",
      [name |-> "South Carolina Bar",
       url |-> "https://www.scbar.org/lawyers/lawyer-directory/",
       instructions |-> "Search by name or bar number"]>>,
    <<"SD",
      [name |-> "State Bar of South Dakota",
       url |-> "https://www.statebarofsouthdakota.com/find-a-lawyer",
       instructions |-> "Search by name"]>>,
    <<"TN",
      [name |-> "Tennessee Board of Professional Responsibility",
       url |-> "https://www.tbpr.org/attorneys",
       instructions |-> "Search by name or BPR number"]>>,
    <<"TX",
      [name |-> "State Bar of Texas",
       url |-> "https://www.texasbar.com/AM/Template.cfm?Section=Find_A_Lawyer",
       instructions |-> "Search by name or bar number"]>>,
    <<"UT",
      [name |-> "Utah State Bar",
       url |-> "https://www.utahbar.org/public-services/find-a-lawyer/",
       instructions |-> "Search by name or bar number"]>>,
    <<"VT",
      [name |-> "Vermont Bar Association",
       url |-> "https://www.vtbar.org/find-a-lawyer/",
       instructions |-> "Search by name"]>>,
    <<"VA",
      [name |-> "Virginia State Bar",
       url |-> "https://www.vsb.org/attorney/attSearch.asp",
       instructions |-> "Search by name or VSB number"]>>,
    <<"WA",
      [name |-> "Washington State Bar Association",
       url |-> "https://www.mywsba.org/PersonifyEbusiness/LegalDirectory.aspx",
       instructions |-> "Search by name or bar number"]>>,
    <<"WV",
      [name |-> "West Virginia State Bar",
       url |-> "https://wvbar.org/for-the-public/find-a-lawyer/",
       instructions |-> "Search by name"]>>,
    <<"WI",
      [name |-> "State Bar of Wisconsin",
       url |-> "https://www.wisbar.org/forPublic/FindaLawyer/Pages/Find-a-Lawyer.aspx",
       instructions |-> "Search by name or bar number"]>>,
    <<"WY",
      [name |-> "Wyoming State Bar",
       url |-> "https://www.wyomingbar.org/for-the-public/find-a-lawyer/",
       instructions |-> "Search by name"]>>
  >>

StateCodes == {STATE_BAR_INFO[i][1] : i \in 1..Len(STATE_BAR_INFO)}

\* mutant: the state is compared as it was passed
build_verification_url_NoUpper(st, bar) ==
  IF st = "CA" /\ bar # ""
  THEN "https://apps.calbar.ca.gov/attorney/Licensee/Detail/" \o bar
  ELSE DictGet(STATE_BAR_INFO, st,
               [url |-> "https://www.americanbar.org/groups/legal_services/flh-home/"]).url

\* info = STATE_BAR_INFO.get(state, {}) and info.get("url", <the ABA page>)
build_verification_url(st, bar) ==
  IF Upper(st) = "CA" /\ bar # ""
  THEN "https://apps.calbar.ca.gov/attorney/Licensee/Detail/" \o bar
  ELSE DictGet(STATE_BAR_INFO, Upper(st),
               [url |-> "https://www.americanbar.org/groups/legal_services/flh-home/"]).url

\* two-letter codes offered: every code of the table in upper case, lower
\* case and capitalized, and codes the table does not have
UnknownStates == {"ZZ", "pr", "Gu"}
VerifyStates ==
  StateCodes \cup {Lower(c) : c \in StateCodes}
    \cup {Capitalize(Lower(c)) : c \in StateCodes} \cup UnknownStates
BarNumbers == {"123456", "TX12345678", " 77 ", " ", ""}

NoVerifyRequest == [state |-> "", bar_number |-> ""]

VerifyIdle ==
  /\ vpc = "idle" /\ verify_request = NoVerifyRequest
  /\ verification_url = "" /\ verify_response = NoResponse

\* either the function is called with the two arguments as they are, or the
\* endpoint receives them in a request (bar_number has min_length 1)
VerifyInit ==
  /\ vpc \in {"function", "endpoint"}
  /\ verify_request \in [state : VerifyStates, bar_number : BarNumbers]
  /\ vpc = "endpoint" => verify_request.bar_number # ""
  /\ verification_url = "" /\ verify_response = NoResponse

\* build_verification_url(state, bar_number)
BuildVerificationUrl ==
  /\ vpc = "function"
  /\ verification_url' = build_verification_url(verify_request.state,
                                                verify_request.bar_number)
  /\ vpc' = "built"
  /\ UNCHANGED <<verify_request, verify_response, vrest>>

\* verify_attorney: "if state not in STATE_BAR_INFO"
VerifyInvalidState ==
  /\ vpc = "endpoint"
  /\ Upper(verify_request.state) \notin StateCodes
  /\ verify_response' = [kind |-> "HTTPException", status_code |-> 400]
  /\ vpc' = "error"
  /\ UNCHANGED <<verify_request, verification_url, vrest>>

\* verify_attorney: the response for a state of the table
VerifyAttorney ==
  /\ vpc = "endpoint"
  /\ Upper(verify_request.state) \in StateCodes
  /\ LET st == Upper(verify_request.state)
         bar == Strip(verify_request.bar_number)
         info == DictGet(STATE_BAR_INFO, st, [name |-> ""])
         url == build_verification_url(st, bar)
     IN /\ verification_url' = url
        /\ verify_response' = [kind |-> "VerifyAttorneyResponse",
                               success |-> TRUE,
                               verification_url |-> url,
                               state_bar_name |-> info.name,
                               instructions |-> info.instructions]
  /\ vpc' = "done"
  /\ UNCHANGED <<verify_request, vrest>>

(***************************************************************************)
(* Two executions of search_with_attorney_extraction whose steps           *)
(* interleave at the await points.  runs[r] holds the local variables of   *)
(* execution r: all_attorneys, cases_with_attorneys, results and the loop  *)
(* variables are created inside the function, once per call.               *)
(***************************************************************************)
RunIds == {1, 2}

\* mutant: the accumulators are module-level lists, shared by all calls
Frame_Shared(r) == 1

\* the frame that holds all_attorneys and cases_with_attorneys of execution
\* r: its own
Frame(r) == r

RunRequests ==
  {[query |-> Query, jurisdiction |-> None, party_filter |-> "all",
    limit |-> 2],
   [query |-> Query, jurisdiction |-> "CA", party_filter |-> "tenant",
    limit |-> 1]}

RunResultLists ==
  {<<SearchHit>>, <<ClusterOnly, DocketOnly>>, <<DocketOnly, Untidy>>}

RunDocketReplies ==
  {HttpResponse(200, JList(<<TenantUnion, AcmeCorp>>)), HttpException}

RunClusterReplies ==
  {ClusterResponse(200, JList(<<JStr(OpinionUrl)>>)),
   ClusterResponse(404, JMissing)}

IdleRun ==
  [pc |-> "idle", request |-> [query |-> "", jurisdiction |-> None,
                               party_filter |-> "all", limit |-> 1],
   found |-> <<>>, results |-> <<>>, case_no |-> 0, case_attorneys |-> <<>>,
   cases_with_attorneys |-> <<>>, all_attorneys |-> <<>>,
   docket |-> NoReply, cluster |-> NoReply, opinion |-> NoReply,
   log |-> <<>>, response |-> NoResponse]

\* all_attorneys = [], cases_with_attorneys = [] and the search request sent
StartRun(req) == [IdleRun EXCEPT !.pc = "search", !.request = req]

RunsIdle == runs = [r \in RunIds |-> IdleRun]

RunsInit == runs \in [RunIds -> {StartRun(req) : req \in RunRequests}]

\* results = data.get("results", [])[:limit]
RunSearchReturns(r) ==
  /\ runs[r].pc = "search"
  /\ \E found \in RunResultLists :
       runs' = [runs EXCEPT ![r].found = found,
                            ![r].results = Truncate(found, runs[r].request.limit),
                            ![r].case_no = 1,
                            ![r].pc = "case"]
  /\ UNCHANGED rrest

\* the loop body up to the first request made for the case
RunCaseStart(r) ==
  /\ runs[r].pc = "case" /\ runs[r].case_no <= Len(runs[r].results)
  /\ LET result == runs[r].results[runs[r].case_no]
         attys == IF result.attorney # ""
                  THEN <<AttorneyInfo(result.attorney, "From case record",
                                      None, None, "search_result")>>
                  ELSE <<>>
     IN runs' = [runs EXCEPT
                   ![r].case_attorneys = attys,
                   ![r].docket = NoReply,
                   ![r].cluster = NoReply,
                   ![r].opinion = NoReply,
                   ![r].pc = IF result.docket_id # NoId THEN "docket"
                             ELSE AfterDocket(result, attys)]
  /\ UNCHANGED rrest

\* fetch_parties_and_attorneys returns to execution r
RunDocketReturns(r) ==
  /\ runs[r].pc = "docket"
  /\ \E reply \in RunDocketReplies :
       LET attys == runs[r].case_attorneys
                      \o fetch_parties_and_attorneys(reply)
       IN runs' = [runs EXCEPT
                     ![r].docket = reply,
                     ![r].case_attorneys = attys,
                     ![r].pc = AfterDocket(runs[r].results[runs[r].case_no],
                                           attys)]
  /\ UNCHANGED rrest

\* the cluster reply of fetch_opinion_text arrives for execution r
RunClusterReturns(r) ==
  /\ runs[r].pc = "cluster"
  /\ \E reply \in RunClusterReplies :
       runs' = [runs EXCEPT
                  ![r].cluster = reply,
                  ![r].pc = IF ClusterStep(reply).next = "get" THEN "opinion"
                            ELSE "finish"]
  /\ UNCHANGED rrest

\* the opinion reply arrives for execution r, and the extraction
RunOpinionReturns(r) ==
  /\ runs[r].pc = "opinion"
  /\ \E reply \in OpinionReplies :
       runs' = [runs EXCEPT
                  ![r].opinion = reply,
                  ![r].case_attorneys =
                     @ \o TextAttorneys[reply, runs[r].request.party_filter],
                  ![r].pc = "finish"]
  /\ UNCHANGED rrest

\* the party filter, the case record and all_attorneys.extend
RunCaseFinish(r) ==
  /\ runs[r].pc = "finish"
  /\ LET kept == FilterByParty(runs[r].case_attorneys,
                               runs[r].request.party_filter)
         result == runs[r].results[runs[r].case_no]
     IN runs' = [runs EXCEPT
                   ![Frame(r)].cases_with_attorneys =
                      Append(@, CaseWithAttorneys(result, kept)),
                   ![Frame(r)].all_attorneys = @ \o kept,
                   ![r].log = Append(@, [docket |-> runs[r].docket,
                                         cluster |-> runs[r].cluster,
                                         opinion |-> runs[r].opinion]),
                   ![r].case_no = @ + 1,
                   ![r].pc = "case"]
  /\ UNCHANGED rrest

\* after the loop of execution r: the aggregation and the response
RunRespond(r) ==
  /\ runs[r].pc = "case" /\ runs[r].case_no > Len(runs[r].results)
  /\ \E unique \in UniqueAttorneys(runs[Frame(r)].all_attorneys) :
       runs' = [runs EXCEPT
                  ![r].response =
                     [kind |-> "AttorneySearchResponse",
                      success |-> TRUE,
                      cases_analyzed |-> Len(runs[r].results),
                      attorneys_found |-> runs[Frame(r)].all_attorneys,
                      cases_with_attorneys |->
                        runs[Frame(r)].cases_with_attorneys,
                      unique_attorneys |-> unique,
                      query_used |-> SearchQuery(runs[r].request.query,
                                                 runs[r].request.jurisdiction),
                      party_filter |-> runs[r].request.party_filter],
                  ![r].pc = "done"]
  /\ UNCHANGED rrest

(***************************************************************************)
(* fetch_opinion_text on its own: the cluster request, the request for the *)
(* first sub-opinion and the value returned                                *)
(***************************************************************************)
OtherOpinionUrl == "https://www.courtlistener.com/api/rest/v4/opinions/8/"

\* replies to the cluster request: an exception, statuses that are no
\* success, and payloads with sub_opinions absent, null, empty, beginning
\* with a value that is no string, and beginning with a URL
FetchClusterReplies ==
  {HttpException, ClusterResponse(404, JMissing),
   ClusterResponse(500, JList(<<JStr(OpinionUrl)>>)),
   ClusterResponse(200, JMissing), ClusterResponse(200, JNull),
   ClusterResponse(200, JList(<<>>)),
   ClusterResponse(200, JList(<<JNull, JStr(OpinionUrl)>>)),
   ClusterResponse(200, JList(<<JStr(OpinionUrl)>>)),
   ClusterResponse(200, JList(<<JStr(OtherOpinionUrl), JStr(OpinionUrl)>>))}

\* values of a text-bearing field of the opinion payload
TextFieldValues(txt) == {JMissing, JNull, JStr(""), JStr(txt)}

FetchOpinionReplies ==
  {HttpException, OpinionResponse(404, JMissing, JMissing, JMissing),
   OpinionResponse(503, JStr("<p>Al Roe</p>"), JMissing, JMissing)}
    \cup {OpinionResponse(200, hc, pt, h) :
            hc \in TextFieldValues("<p>Al  Roe,</p> for Appellant"),
            pt \in TextFieldValues("Di Fox,\nfor Appellee"),
            h \in TextFieldValues("<b>Cy Day</b>")}

OpinionIdle ==
  /\ opc = "idle" /\ cluster_response = NoReply
  /\ opinion_response = NoReply /\ opinion_text = None

\* the cluster request is sent
OpinionInit ==
  /\ opc = "cluster" /\ cluster_response = NoReply
  /\ opinion_response = NoReply /\ opinion_text = None

\* the cluster request is answered or raises: return None, or the request
\* for the first sub-opinion
FetchCluster ==
  /\ opc = "cluster"
  /\ \E reply \in FetchClusterReplies :
       /\ cluster_response' = reply
       /\ opc' = IF ClusterStep(reply).next = "get" THEN "opinion"
                 ELSE "return"
  /\ opinion_text' = None
  /\ UNCHANGED <<opinion_response, orest>>

\* the opinion request is answered or raises: the value returned
FetchOpinion ==
  /\ opc = "opinion"
  /\ \E reply \in FetchOpinionReplies :
       /\ opinion_response' = reply
       /\ opinion_text' = OpinionStep(reply)
  /\ opc' = "return"
  /\ UNCHANGED <<cluster_response, orest>>

(***************************************************************************)
(* Specifications                                                          *)
(***************************************************************************)
\* build_court_filter_query on every offered jurisdiction code
InitJur ==
  JurInit /\ ExtIdle /\ DocketIdle /\ AggIdle /\ PipeIdle /\ VerifyIdle
    /\ PlainIdle /\ OpinionIdle /\ RunsIdle

NextJur == BuildCourtFilter

SpecJur == InitJur /\ [][NextJur]_vars

\* extract_attorneys_from_text on every offered text and party filter
InitExt ==
  ExtInit /\ JurIdle /\ DocketIdle /\ AggIdle /\ PipeIdle /\ VerifyIdle
    /\ PlainIdle /\ OpinionIdle /\ RunsIdle

NextExt ==
  ExtEmptyText \/ ExtNextPattern \/ ExtMatch \/ ExtReturn \/ ExtSecondRun

SpecExt == InitExt /\ [][NextExt]_vars

\* fetch_parties_and_attorneys on every offered reply of the parties endpoint
InitDocket ==
  DocketInit /\ JurIdle /\ ExtIdle /\ AggIdle /\ PipeIdle /\ VerifyIdle
    /\ PlainIdle /\ OpinionIdle /\ RunsIdle

NextDocket ==
  FetchPartiesException \/ FetchPartiesResponse \/ FetchPartiesParty
    \/ FetchPartiesReturn

SpecDocket == InitDocket /\ [][NextDocket]_vars

\* the aggregation on every offered list of collected records
InitAgg ==
  AggInit /\ JurIdle /\ ExtIdle /\ DocketIdle /\ PipeIdle /\ VerifyIdle
    /\ PlainIdle /\ OpinionIdle /\ RunsIdle

NextAgg == AggFold \/ AggRank

SpecAgg == InitAgg /\ [][NextAgg]_vars

\* One request to either search endpoint, against every offered upstream
\* behaviour.
Init ==
  /\ \/ PipeInit /\ PlainIdle
     \/ PipeIdle /\ PlainInit
  /\ JurIdle /\ ExtIdle /\ DocketIdle /\ AggIdle /\ VerifyIdle
  /\ OpinionIdle /\ RunsIdle

Next ==
  SearchFails \/ SearchReturns \/ CaseStart \/ DocketReturns
    \/ ClusterReturns \/ OpinionReturns \/ CaseFinish \/ Respond
    \/ PlainSearchFails \/ PlainSearchReturns

Spec == Init /\ [][Next]_vars

\* build_verification_url and the verify endpoint on every offered state
\* code and bar number
InitVerify ==
  VerifyInit /\ JurIdle /\ ExtIdle /\ DocketIdle /\ AggIdle /\ PipeIdle
    /\ PlainIdle /\ OpinionIdle /\ RunsIdle

NextVerify == BuildVerificationUrl \/ VerifyInvalidState \/ VerifyAttorney

SpecVerify == InitVerify /\ [][NextVerify]_vars

\* fetch_opinion_text on every offered cluster reply and opinion reply
InitOpinion ==
  OpinionInit /\ JurIdle /\ ExtIdle /\ DocketIdle /\ AggIdle /\ PipeIdle
    /\ VerifyIdle /\ PlainIdle /\ RunsIdle

NextOpinion == FetchCluster \/ FetchOpinion

SpecOpinion == InitOpinion /\ [][NextOpinion]_vars

\* two requests to the attorney search whose executions interleave at
\* their await points
InitRuns ==
  RunsInit /\ JurIdle /\ ExtIdle /\ DocketIdle /\ AggIdle /\ PipeIdle
    /\ VerifyIdle /\ PlainIdle /\ OpinionIdle

NextRuns ==
  \E r \in RunIds :
    \/ RunSearchReturns(r) \/ RunCaseStart(r) \/ RunDocketReturns(r)
    \/ RunClusterReturns(r) \/ RunOpinionReturns(r) \/ RunCaseFinish(r)
    \/ RunRespond(r)

SpecRuns == InitRuns /\ [][NextRuns]_vars

(***************************************************************************)
(* Properties of build_court_filter_query (SpecJur)                        *)
(***************************************************************************)
\* the offset of the first occurrence of sep in s, or -1
FirstIndex(s, sep) ==
  LET At(i) == SubSeq(s, i + 1, i + Len(sep)) = sep
      Offsets == 0..(Len(s) - Len(sep))
  IN IF \E i \in Offsets : At(i)
     THEN CHOOSE i \in Offsets : At(i) /\ \A j \in 0..(i - 1) : ~At(j)
     ELSE -1

\* s.split(sep)
RECURSIVE SplitOn(_, _)
SplitOn(s, sep) ==
  With(s, LAMBDA str :
    With(FirstIndex(str, sep), LAMBDA k :
      IF k = -1 THEN <<str>>
      ELSE <<SubSeq(str, 1, k)>>
             \o SplitOn(SubSeq(str, k + Len(sep) + 1, Len(str)), sep)))

\* C7: for a code, in any letter case, that maps to N >= 2 court identifiers
\* the clause is "(" + the N terms court_id:<id> joined by " OR " in table
\* order + ")"; for a code that maps to one identifier it is court_id:<id>.
C7_CourtFilterListsEveryCourt ==
  jpc = "return" =>
    \A n \in 1..Len(COURTLISTENER_JURISDICTIONS) :
      LET key == COURTLISTENER_JURISDICTIONS[n][1]
          ids == COURTLISTENER_JURISDICTIONS[n][2]
          len == Len(court_filter)
      IN jurisdiction \in {key, Upper(key), Capitalize(key)} =>
           IF Len(ids) >= 2
           THEN /\ len >= 2
                /\ SubSeq(court_filter, 1, 1) = "("
                /\ SubSeq(court_filter, len, len) = ")"
                /\ SplitOn(SubSeq(court_filter, 2, len - 1), " OR ")
                     = Tuple([i \in 1..Len(ids) |-> "court_id:" \o ids[i]])
           ELSE court_filter = "court_id:" \o ids[1]

C7_Witness ==
  /\ jpc = "return"
  /\ jurisdiction = "CA"
  /\ court_filter = "(court_id:cal OR court_id:calctapp OR court_id:calappdeptsuperct)"

\* C8: a code whose lower-case form is no key of the table gives exactly
\* court_id: followed by the code in lower case.
C8_UnknownCodePassedThroughLowercase ==
  (jpc = "return" /\ Lower(jurisdiction) \notin JurisdictionKeys) =>
    court_filter = "court_id:" \o Lower(jurisdiction)

C8_Witness ==
  /\ jpc = "return"
  /\ jurisdiction = "Guam"
  /\ court_filter = "court_id:guam"

(***************************************************************************)
(* Properties of extract_attorneys_from_text (SpecExt)                     *)
(***************************************************************************)
Names(attys) == {attys[i].name : i \in 1..Len(attys)}

\* C4: every extracted name has at least 3 characters after whitespace
\* normalization and trailing-comma removal, and contains no reject-list
\* phrase in any letter case.
C4_NamesLongEnoughAndNotRejected ==
  \A i \in 1..Len(attorneys) :
    /\ Len(DropTrailingComma(Strip(CollapseSpaces(attorneys[i].name)))) >= 3
    /\ \A w \in 1..Len(skip_words) :
         ~Contains(Lower(attorneys[i].name), skip_words[w])

\* a listing is accepted while a reject-list match of the text is dropped
C4_Witness ==
  /\ epc = "return"
  /\ text = "The  Court, for Defendant. Al Roe, for Appellant. "
  /\ party_filter = "all"
  /\ Names(unique_attorneys) = {"Al Roe"}

\* C5: the output has at most one record per case-insensitive name, and it
\* is the accepted matches (attorneys, in scan order) cut down to the first
\* record of each name, in the same order.
C5_FirstRecordOfEachNameInScanOrder ==
  epc = "return" =>
    LET IsFirst(i) ==
          \A j \in 1..(i - 1) :
            Lower(attorneys[j].name) # Lower(attorneys[i].name)
        firsts == SelectSeq([i \in 1..Len(attorneys) |-> i], IsFirst)
    IN /\ \A i, j \in 1..Len(unique_attorneys) :
            i < j => Lower(unique_attorneys[i].name)
                       # Lower(unique_attorneys[j].name)
       /\ unique_attorneys
            = Tuple([n \in 1..Len(firsts) |-> attorneys[firsts[n]]])

\* the same attorney is listed twice, in different letter case
C5_Witness ==
  /\ epc = "return"
  /\ text = "Al Roe, for Appellant. AL  ROE for Appellee. "
  /\ party_filter = "all"
  /\ Names(attorneys) = {"Al Roe", "AL ROE"}
  /\ Len(unique_attorneys) = 1
  /\ unique_attorneys[1].name = "Al Roe"
  /\ unique_attorneys[1].party_represented = "Appellant"

WellFormed(parties) ==
  \A p \in 1..Len(parties) :
    /\ parties[p].attorneys.t \in {"list", "missing"}
    /\ parties[p].attorneys.t = "list" =>
         \A a \in 1..Len(parties[p].attorneys.v) :
           parties[p].attorneys.v[a].t = "obj"

Named(atty) == atty.name.t = "str" /\ atty.name.v # ""

\* the record required for attorney atty of party
DocketRecord(party, atty) ==
  [name |-> atty.name.v,
   role |-> "For " \o (IF party.party_types.t = "list"
                          /\ Len(party.party_types.v) > 0
                          /\ party.party_types.v[1].name.t = "str"
                       THEN party.party_types.v[1].name.v ELSE "Unknown"),
   firm |-> IF atty.contact_raw.t = "str" THEN atty.contact_raw.v ELSE "",
   party_represented |->
     IF party.name.t = "str" THEN party.name.v ELSE "Unknown Party",
   source |-> "docket"]

\* the (party, attorney) pairs with a named attorney, party by party
NamedPairs(parties) ==
  Flatten([p \in 1..Len(parties) |->
    IF parties[p].attorneys.t = "missing" THEN <<>>
    ELSE LET attys == parties[p].attorneys.v
             named == SelectSeq([a \in 1..Len(attys) |-> a],
                                LAMBDA a : Named(attys[a]))
         IN Tuple([n \in 1..Len(named) |-> <<p, named[n]>>])])

\* C10: on a successful parties response the result is exactly one record
\* per (party, attorney) pair whose attorney has a non-empty name, in party
\* order then attorney order, with source docket, role "For <party type>",
\* firm the contact string and party_represented the party name.
C10_OneRecordPerNamedAttorney ==
  (/\ dpc = "return"
   /\ docket_reply.kind = "response"
   /\ docket_reply.status_code = 200
   /\ WellFormed(PartiesOf(docket_reply))) =>
    LET parties == PartiesOf(docket_reply)
        pairs == NamedPairs(parties)
    IN docket_attorneys
         = Tuple([n \in 1..Len(pairs) |->
                    DocketRecord(parties[pairs[n][1]],
                                 parties[pairs[n][1]].attorneys.v[pairs[n][2]])])

\* two parties, one with one attorney and one with none: one record
C10_Witness ==
  /\ dpc = "return"
  /\ docket_reply.kind = "response"
  /\ docket_reply.status_code = 200
  /\ Len(PartiesOf(docket_reply)) = 2
  /\ PartiesOf(docket_reply)[1].attorneys = JList(<<>>)
  /\ docket_attorneys =
       <<[name |-> "Al Roe", role |-> "For Plaintiff", firm |-> "Roe LLP",
          party_represented |-> "Tenant Union", source |-> "docket"]>>

(***************************************************************************)
(* Properties of the aggregation (SpecAgg)                                 *)
(***************************************************************************)
NameKey(name) == Strip(Lower(name))

\* the position in the collected records at which a name is first seen
FirstSeen(name) ==
  CHOOSE k \in 1..Len(attorneys_found) :
    /\ NameKey(attorneys_found[k].name) = NameKey(name)
    /\ \A j \in 1..(k - 1) :
         NameKey(attorneys_found[j].name) # NameKey(name)

\* C3: unique_attorneys is ordered by non-increasing case_count, and entries
\* of equal case_count stand in the order in which their names were first
\* encountered among the collected records.
C3_RankedByCountTiesInDiscoveryOrder ==
  apc = "done" =>
    /\ {NameKey(ranking[i].name) : i \in 1..Len(ranking)}
         = {NameKey(attorneys_found[k].name) : k \in 1..Len(attorneys_found)}
    /\ \A i, j \in 1..Len(ranking) :
         i < j =>
           /\ NameKey(ranking[i].name) # NameKey(ranking[j].name)
           /\ ranking[i].case_count >= ranking[j].case_count
           /\ ranking[i].case_count = ranking[j].case_count =>
                FirstSeen(ranking[i].name) < FirstSeen(ranking[j].name)

\* counts 2, 1, 2 in discovery order are ranked first, third, second
C3_Witness ==
  /\ apc = "done"
  /\ [k \in 1..Len(attorneys_found) |-> attorneys_found[k].name]
       = <<"Al Roe", "Cy Day", "Di Fox", " AL ROE", "Di Fox">>
  /\ [i \in 1..Len(ranking) |-> <<ranking[i].name, ranking[i].case_count>>]
       = <<<<"Al Roe", 2>>, <<"Di Fox", 2>>, <<"Cy Day", 1>>>>

(***************************************************************************)
(* Properties of search_with_attorney_extraction (Spec)                    *)
(***************************************************************************)
\* the cases whose attorneys list holds a record of the name
CasesNaming(name) ==
  {c \in 1..Len(response.cases_with_attorneys) :
     \E k \in 1..Len(response.cases_with_attorneys[c].attorneys) :
       NameKey(response.cases_with_attorneys[c].attorneys[k].name)
         = NameKey(name)}

\* C1: in the response, the case_count of every entry of unique_attorneys is
\* the number of distinct cases of cases_with_attorneys whose attorneys list
\* holds a record of that name, compared in lower case and trimmed; a name
\* that occurs twice in the list of one case counts that case once.
C1_CaseCountIsNumberOfCases ==
  pc = "done" =>
    \A i \in 1..Len(response.unique_attorneys) :
      response.unique_attorneys[i].case_count
        = Cardinality(CasesNaming(response.unique_attorneys[i].name))

\* the alias terms of a party filter
AliasTerms(pf) ==
  CASE Lower(pf) = "appellant" -> {"appellant", "plaintiff", "petitioner"}
    [] Lower(pf) = "appellee" -> {"appellee", "respondent", "defendant"}
    [] Lower(pf) = "tenant" -> {"appellant", "plaintiff", "petitioner", "tenant"}
    [] Lower(pf) = "landlord" -> {"appellee", "respondent", "defendant", "landlord"}
    [] OTHER -> {Lower(pf)}

NamesTerm(field, pf) ==
  /\ field # None
  /\ \E term \in AliasTerms(pf) : Contains(Lower(field), term)

Retained(a, pf) ==
  \/ NamesTerm(a.party_represented, pf)
  \/ NamesTerm(a.role, pf)
  \/ a.source = "search_result"

\* C2: under a party filter other than "all" the per-case filter keeps a
\* collected record if and only if its party_represented or its role
\* contains, in any case, one of the alias terms of the filter, or its
\* source is search_result; the records kept stay in their order.
C2_KeptIffAliasTermOrSearchResult ==
  request.party_filter # "all" =>
    \A c \in 1..Len(cases_with_attorneys) :
      cases_with_attorneys[c].attorneys
        = SelectSeq(lookups[c].collected,
                    LAMBDA a : Retained(a, request.party_filter))

IsIn(a, attys) == \E k \in 1..Len(attys) : attys[k] = a

\* under tenant a record for "Plaintiff" is kept, docket records naming only
\* the defendant are dropped and the search_result record is kept
C2_Witness ==
  /\ request.party_filter = "tenant"
  /\ \E c \in 1..Len(cases_with_attorneys) :
       \E a \in {lookups[c].collected[k] : k \in 1..Len(lookups[c].collected)} :
         /\ a.party_represented = "Plaintiff"
         /\ IsIn(a, cases_with_attorneys[c].attorneys)
  /\ \E c \in 1..Len(cases_with_attorneys) :
       /\ \E a \in {lookups[c].collected[k] : k \in 1..Len(lookups[c].collected)} :
            /\ a.source = "docket"
            /\ a.role = "For Defendant" /\ a.party_represented = "ACME Corp"
            /\ ~IsIn(a, cases_with_attorneys[c].attorneys)
       /\ \E a \in {lookups[c].collected[k] : k \in 1..Len(lookups[c].collected)} :
            /\ a.source = "search_result"
            /\ IsIn(a, cases_with_attorneys[c].attorneys)

\* the cases whose cluster lookup was answered with status 404
ClusterNotFound ==
  {c \in 1..Len(lookups) :
     /\ lookups[c].cluster.kind = "response"
     /\ lookups[c].cluster.status_code = 404}

ClusterNotFoundNow ==
  /\ pc \in {"opinion", "finish", "error"}
  /\ cluster_reply.kind = "response" /\ cluster_reply.status_code = 404

C11_AnalyzedWithinLimitAndQueryUsed ==
  pc = "done" =>
    /\ response.cases_analyzed <= request.limit
    /\ \A i \in 1..Len(response.unique_attorneys) :
         response.unique_attorneys[i].case_count >= 1
    /\ request.jurisdiction # None =>
         /\ response.query_used
              = request.query \o " " \o build_court_filter_query(request.jurisdiction)
         /\ Contains(response.query_used, " court_id:")
            \/ Contains(response.query_used, " (court_id:")
    /\ request.jurisdiction = None => response.query_used = request.query

\* limit 1 against two upstream results, jurisdiction CA
C11_Witness ==
  /\ pc = "done"
  /\ request.limit = 1 /\ response.cases_analyzed = 1
  /\ request.jurisdiction = "CA"
  /\ response.query_used
       = "tenant eviction (court_id:cal OR court_id:calctapp OR court_id:calappdeptsuperct)"
  /\ Len(response.unique_attorneys) > 0

(***************************************************************************)
(* Properties of build_verification_url (SpecVerify)                       *)
(***************************************************************************)
\* the base URL the table has for a state code
BaseUrl(code) ==
  STATE_BAR_INFO[CHOOSE i \in 1..Len(STATE_BAR_INFO) :
                   STATE_BAR_INFO[i][1] = code][2].url

\* the URL required for a state code of the table and a bar number
RequiredUrl(code, bar) ==
  IF code = "CA" /\ bar # ""
  THEN "https://apps.calbar.ca.gov/attorney/Licensee/Detail/" \o bar
  ELSE BaseUrl(code)

\* C12: build_verification_url returns the California detail-page prefix
\* with the bar number appended when the state, in any letter case, is CA
\* and the bar number is not empty; for every other state code of the table
\* it returns that state's base URL as it stands, whatever the bar number.
C12_VerificationUrl ==
  /\ (vpc = "built" /\ Upper(verify_request.state) \in StateCodes) =>
       verification_url = RequiredUrl(Upper(verify_request.state),
                                      verify_request.bar_number)
  /\ vpc = "done" =>
       /\ verify_response.verification_url
            = RequiredUrl(Upper(verify_request.state),
                          Strip(verify_request.bar_number))
       /\ Upper(verify_request.state) # "CA" =>
            verify_response.verification_url
              = BaseUrl(Upper(verify_request.state))

\* state "ca" with bar number 123456
C12_Witness ==
  /\ vpc = "built"
  /\ verify_request = [state |-> "ca", bar_number |-> "123456"]
  /\ verification_url
       = "https://apps.calbar.ca.gov/attorney/Licensee/Detail/123456"

\* the primary search call was answered with a status that is no success
SearchRefused(reply) == reply.kind = "response" /\ reply.status_code # 200

\* C13: when the primary search call returns a non-success status, both
\* search functions end in a request failure with the upstream status code;
\* no success response is produced and no request is made for any case.
C13_UpstreamStatusSurfaced ==
  /\ SearchRefused(search_reply) =>
       /\ pc = "error"
       /\ response = [kind |-> "HTTPException",
                      status_code |-> search_reply.status_code]
       /\ calls = <<>> /\ cases_with_attorneys = <<>>
  /\ SearchRefused(plain_reply) =>
       /\ spc = "error"
       /\ plain_response = [kind |-> "HTTPException",
                            status_code |-> plain_reply.status_code]
       /\ calls = <<>>

\* the attorney search is answered with status 429
C13_Witness ==
  /\ pc = "error"
  /\ search_reply = [kind |-> "response", status_code |-> 429]
  /\ response.status_code = 429

\* C14: when the primary search call times out the request fails with a
\* timeout failure, which is not the generic internal failure: the status
\* is not 500, in the plain search and in the attorney search alike.
C14_TimeoutIsItsOwnFailure ==
  /\ (pc = "error" /\ search_reply = HttpTimeout) =>
       response.kind = "HTTPException" /\ response.status_code # 500
  /\ (spc = "error" /\ plain_reply = HttpTimeout) =>
       plain_response.kind = "HTTPException"
         /\ plain_response.status_code # 500

\* a request made for a case failed: an exception (a timeout among them) or
\* a status that is no success
CallFailed(reply) ==
  \/ reply.kind \in {"exception", "timeout"}
  \/ reply.kind = "response" /\ reply.status_code # 200

SourcesOf(attys) == {attys[k].source : k \in 1..Len(attys)}

\* what each source gives a case when its request is answered, nothing when
\* the request failed or was not made
FromSearch(result) ==
  IF result.attorney # ""
  THEN <<[name |-> result.attorney, role |-> "From case record",
          firm |-> None, party_represented |-> None,
          source |-> "search_result"]>>
  ELSE <<>>
FromDocket(reply) ==
  IF reply = NoReply \/ CallFailed(reply) THEN <<>>
  ELSE fetch_parties_and_attorneys(reply)
FromOpinion(cluster, opinion, pf) ==
  IF cluster = NoReply \/ CallFailed(cluster) THEN <<>>
  ELSE IF opinion = NoReply \/ CallFailed(opinion) THEN <<>>
  ELSE TextAttorneys[opinion, pf]

SearchSucceeded(reply) ==
  reply.kind = "response" /\ reply.status_code = 200

\* C16: whenever the primary search call succeeds the caller receives a
\* success response, whatever optional fields the results lack or carry
\* malformed; an error response is produced only when the search call
\* itself failed. Stated for the attorney search and the plain search.
C16_SearchSuccessGivesSuccessResponse ==
  /\ pc = "error" => ~SearchSucceeded(search_reply)
  /\ (pc = "done" /\ SearchSucceeded(search_reply)) =>
       response.kind = "AttorneySearchResponse" /\ response.success
  /\ spc = "error" => ~SearchSucceeded(plain_reply)
  /\ (spc = "done" /\ SearchSucceeded(plain_reply)) =>
       plain_response.kind = "CaseSearchResponse" /\ plain_response.success

\* C17: the i-th entry of cases_with_attorneys is built from the i-th result
\* of the upstream search response, for every i up to the smaller of limit
\* and the number of results, whatever the replies to the requests made for
\* the cases: no result is skipped, duplicated or moved.
C17_EntriesFollowUpstreamOrder ==
  /\ Len(cases_with_attorneys) <= Min(request.limit, Len(results))
  /\ \A i \in 1..Len(cases_with_attorneys) :
       /\ i <= Len(search_reply.results)
       /\ cases_with_attorneys[i]
            = CaseWithAttorneys(search_reply.results[i],
                                cases_with_attorneys[i].attorneys)
       /\ FromSearch(search_reply.results[i])
            = SubSeq(lookups[i].collected, 1,
                     Len(FromSearch(search_reply.results[i])))
       /\ (lookups[i].docket = NoReply)
            <=> (search_reply.results[i].docket_id = NoId)
  /\ pc = "done" =>
       /\ Len(cases_with_attorneys)
            = Min(request.limit, Len(search_reply.results))
       /\ response.cases_with_attorneys = cases_with_attorneys

\* two different results are returned and the limit is one, the parties
\* request of the one case analysed raises
C17_Witness ==
  /\ pc = "done" /\ request.limit = 1
  /\ search_reply.results = <<DocketOnly, SearchHit>>
  /\ lookups[1].docket = HttpException
  /\ Len(response.cases_with_attorneys) = 1
  /\ response.cases_with_attorneys[1].docket_id = DocketOnly.docket_id

\* the parties request failed, or an exception was raised while its payload
\* was read
PartiesFailed ==
  \/ docket_reply.kind = "exception"
  \/ docket_reply.kind = "response" /\ docket_reply.status_code # 200
  \/ docket_reply.kind = "response" /\ docket_reply.status_code = 200
       /\ ~WellFormed(PartiesOf(docket_reply))

\* C18: fetch_parties_and_attorneys returns the empty sequence whenever the
\* parties request has a status that is no success or an exception is raised
\* during the request or while its payload is read, an exception on a later
\* party after records were built from earlier parties included.
C18_FailureGivesEmptySequence ==
  (dpc = "return" /\ PartiesFailed) => docket_attorneys = <<>>

(***************************************************************************)
(* Properties of fetch_opinion_text (SpecOpinion)                          *)
(***************************************************************************)
\* the cluster payload names no first sub-opinion that is a string
NoOpinionReference(reply) ==
  \/ reply.sub_opinions.t # "list"
  \/ reply.sub_opinions.v = <<>>
  \/ reply.sub_opinions.v[1].t # "str"

\* all three text-bearing fields are missing or empty
NoTextField(reply) ==
  /\ ~Truthy(reply.html_with_citations)
  /\ ~Truthy(reply.plain_text)
  /\ ~Truthy(reply.html)

\* the fetch failed: one of the requests raised or had a status that is no
\* success, or a payload lacks what the text is taken from
OpinionFetchFailed ==
  \/ CallFailed(cluster_response)
  \/ SearchSucceeded(cluster_response) /\ NoOpinionReference(cluster_response)
  \/ CallFailed(opinion_response)
  \/ SearchSucceeded(opinion_response) /\ NoTextField(opinion_response)

\* C19: fetch_opinion_text returns None on every fetch failure: a status of
\* the cluster or opinion request that is no success, an exception, a
\* cluster without a first sub-opinion reference that is a string, and an
\* opinion payload whose three text-bearing fields are all missing or empty.
C19_FetchFailureGivesNone ==
  (opc = "return" /\ OpinionFetchFailed) => opinion_text = None

(***************************************************************************)
(* Properties of the attorney records of a response (Spec)                 *)
(***************************************************************************)
\* a display name: not empty, no whitespace at either end, no two
\* whitespace characters in a row, no comma at the end
NormalizedName(name) ==
  LET cs == Chars(name) IN
    /\ Len(cs) > 0
    /\ cs[1] \notin Whitespace /\ cs[Len(cs)] \notin Whitespace
    /\ \A i \in 1..(Len(cs) - 1) :
         ~(cs[i] \in Whitespace /\ cs[i + 1] \in Whitespace)
    /\ cs[Len(cs)] # ","

\* the tag of the path that made the k-th record collected for case c
PathOf(c, k) ==
  LET s == Len(FromSearch(results[c]))
      d == Len(FromDocket(lookups[c].docket))
  IN IF k <= s THEN "search_result"
     ELSE IF k <= s + d THEN "docket" ELSE "opinion_text"

\* C20: every attorney record of a response, in attorneys_found and in each
\* case's attorneys, has a name that is non-empty, whitespace-normalized and
\* without a trailing comma, and every record collected carries the source
\* tag (search_result, docket or opinion_text) of the path that made it.
C20_RecordsNormalizedAndTagged ==
  /\ \A c \in 1..Len(lookups) : \A k \in 1..Len(lookups[c].collected) :
       lookups[c].collected[k].source = PathOf(c, k)
  /\ pc = "done" =>
       /\ \A k \in 1..Len(response.attorneys_found) :
            /\ NormalizedName(response.attorneys_found[k].name)
            /\ response.attorneys_found[k].source
                 \in {"search_result", "docket", "opinion_text"}
       /\ \A c \in 1..Len(response.cases_with_attorneys) :
            \A k \in 1..Len(response.cases_with_attorneys[c].attorneys) :
              LET a == response.cases_with_attorneys[c].attorneys[k]
              IN /\ NormalizedName(a.name)
                 /\ a.source \in {"search_result", "docket", "opinion_text"}

(***************************************************************************)
(* Properties of extract_attorneys_from_text: the reversed pattern and the *)
(* party filter (SpecExt)                                                  *)
(***************************************************************************)
\* the record required for a match whose personal name is captured as
\* person and whose party keyword is captured as keyword
RequiredRecord(person, keyword) ==
  AttorneyInfo(DropTrailingComma(Strip(CollapseSpaces(Strip(person)))),
               "For " \o Strip(keyword), None, Strip(keyword), "opinion_text")

\* the match is to be accepted: the personal name is long enough and not on
\* the reject list, and the party keyword passes the party filter
RequiredAccepted(person, keyword, pf) ==
  /\ Len(Strip(person)) >= 3
  /\ ~AnyIn(skip_words,
            Lower(DropTrailingComma(Strip(CollapseSpaces(Strip(person))))))
  /\ FilterParties(pf) # <<>> => AnyIn(FilterParties(pf), Lower(Strip(keyword)))

\* C21: a match of the reversed pattern "Counsel for <Party>: Name" is
\* accepted when its personal name (second group) passes the length and
\* reject-list checks and its party keyword (first group) passes the party
\* filter, and the record it emits has the personal name as name and the
\* party keyword as party_represented, with role "For <party>".
C21_ReversedPatternNameAndParty ==
  [][(epc = "scan" /\ pattern_no = Len(patterns) /\ matches # <<>>) =>
       attorneys' = attorneys \o
         (IF RequiredAccepted(Head(matches)[2], Head(matches)[1], party_filter)
          THEN <<RequiredRecord(Head(matches)[2], Head(matches)[1])>>
          ELSE <<>>)]_vars

\* the alias terms of a party filter: the entry of the alias table, and for
\* a filter that the table does not hold the filter term itself
RequiredAliasTerms(pf) ==
  DictGet(ExtractorPartyAliases, Lower(pf), <<Lower(pf)>>)

\* C22: when extract_attorneys_from_text is called with a party filter other
\* than "all", the party string of every returned record contains, letter
\* case aside, at least one alias term of the filter; the alias terms come
\* from the alias table and, for a filter absent from it, are the filter
\* term alone.
C22_ReturnedPartiesMatchFilter ==
  (epc = "return" /\ party_filter # "all") =>
    \A k \in 1..Len(unique_attorneys) :
      AnyIn(RequiredAliasTerms(party_filter),
            Lower(unique_attorneys[k].party_represented))

(***************************************************************************)
(* Properties of the requests made for a case (Spec)                       *)
(***************************************************************************)
\* the requests logged for case c to an endpoint
CallsTo(endpoint, c) ==
  {k \in 1..Len(calls) : calls[k] = <<endpoint, c>>}

\* what the search result and the docket lookup gave case c
CheapRecords(c) ==
  FromSearch(results[c]) \o FromDocket(lookups[c].docket)

\* C23: for each case the cluster lookup is made exactly when the case has
\* a cluster identifier and fewer than two records were collected from the
\* search result and the docket lookup; with two or more, no cluster or
\* opinion request is made for the case and its attorneys list holds no
\* opinion_text record.
C23_TextOnlyWhenFewerThanTwo ==
  /\ \A c \in 1..Len(lookups) :
       /\ (CallsTo("cluster", c) # {})
            <=> (results[c].cluster_id # NoId /\ Len(CheapRecords(c)) < 2)
       /\ Len(CheapRecords(c)) >= 2 =>
            /\ CallsTo("cluster", c) = {} /\ CallsTo("opinion", c) = {}
            /\ lookups[c].cluster = NoReply /\ lookups[c].opinion = NoReply
            /\ "opinion_text" \notin SourcesOf(lookups[c].collected)
            /\ "opinion_text"
                 \notin SourcesOf(cases_with_attorneys[c].attorneys)
  /\ pc \in {"cluster", "opinion"} =>
       /\ results[case_no].cluster_id # NoId
       /\ Len(case_attorneys) < 2

\* a case with an inline attorney and a docket attorney: two records, and
\* no cluster request although the result has a cluster identifier
C23_Witness ==
  /\ pc = "done" /\ Len(results) >= 1
  /\ results[1] = SearchHit
  /\ Len(CheapRecords(1)) = 2
  /\ CallsTo("docket", 1) # {} /\ CallsTo("cluster", 1) = {}
  /\ Len(response.cases_with_attorneys[1].attorneys) = 2

(***************************************************************************)
(* Properties of a case's attorneys list (Spec)                            *)
(***************************************************************************)
\* the place of a source in the order of discovery
SourceRank(source) ==
  CASE source = "search_result" -> 1
    [] source = "docket" -> 2
    [] source = "opinion_text" -> 3

InSourceOrder(attys) ==
  \A i, j \in 1..Len(attys) :
    i < j => SourceRank(attys[i].source) <= SourceRank(attys[j].source)

\* the records of attys at the indices of kept, in their order
RECURSIVE AtIndices(_, _, _)
AtIndices(attys, kept, i) ==
  IF i > Len(attys) THEN <<>>
  ELSE (IF i \in kept THEN <<attys[i]>> ELSE <<>>)
         \o AtIndices(attys, kept, i + 1)

\* final is collected with some records left out, each of them one that
\* the party filter pf rejects
LeavesOutOnlyRejected(final, collected, pf) ==
  \E kept \in SUBSET (1..Len(collected)) :
    /\ final = AtIndices(collected, kept, 1)
    /\ \A i \in (1..Len(collected)) \ kept :
         pf # "all" /\ ~Retained(collected[i], pf)

\* C24: each case's attorneys list is a subsequence of what was collected
\* for it, search_result record first, then the docket records, then the
\* opinion_text records; a collected record is missing from it only if the
\* party filter rejected it, so that no source replaces another's record
\* and a name sighted by several sources is kept each time.
C24_ConcatenatedThenFiltered ==
  \A c \in 1..Len(lookups) :
    /\ InSourceOrder(lookups[c].collected)
    /\ InSourceOrder(cases_with_attorneys[c].attorneys)
    /\ Len(lookups[c].collected)
         = Len(CheapRecords(c))
             + Len(FromOpinion(lookups[c].cluster, lookups[c].opinion,
                               request.party_filter))
    /\ LeavesOutOnlyRejected(cases_with_attorneys[c].attorneys,
                             lookups[c].collected, request.party_filter)

\* Al Roe is named by the search result and by the docket of the same case:
\* both records are in the case's attorneys list, in that order
C24_Witness ==
  /\ pc = "done" /\ Len(results) >= 1
  /\ Len(response.cases_with_attorneys[1].attorneys) >= 2
  /\ response.cases_with_attorneys[1].attorneys[1].source = "search_result"
  /\ response.cases_with_attorneys[1].attorneys[2].source = "docket"
  /\ response.cases_with_attorneys[1].attorneys[1].name
       = response.cases_with_attorneys[1].attorneys[2].name

\* the reply to the cluster request of case c, finished or in progress
ClusterReplyOf(c) ==
  IF c <= Len(lookups) THEN lookups[c].cluster ELSE cluster_reply

\* the cluster reply is a success that names a first sub-opinion to request
UsableReference(reply) ==
  /\ SearchSucceeded(reply)
  /\ ~NoOpinionReference(reply)
  /\ reply.sub_opinions.v[1].v # ""

\* no request for a case is made twice, and the opinion of a case is
\* requested only after its cluster request was answered with a usable
\* reference
NoCallRepeated ==
  /\ \A j, k \in 1..Len(calls) : calls[j] = calls[k] => j = k
  /\ \A j, k \in 1..Len(calls) : j < k => calls[j][2] <= calls[k][2]
  /\ \A k \in 1..Len(calls) :
       calls[k][1] = "opinion" =>
         /\ \E j \in 1..(k - 1) : calls[j] = <<"cluster", calls[k][2]>>
         /\ UsableReference(ClusterReplyOf(calls[k][2]))
  /\ \A c \in 1..Len(lookups) :
       /\ CallFailed(lookups[c].cluster) => CallsTo("opinion", c) = {}
       /\ (lookups[c].docket # NoReply) <=> (CallsTo("docket", c) # {})
       /\ (lookups[c].cluster # NoReply) <=> (CallsTo("cluster", c) # {})
       /\ (lookups[c].opinion # NoReply) <=> (CallsTo("opinion", c) # {})
  /\ pc # "idle" => ((pc = "search") <=> (search_reply = NoReply))

\* C25: within one attorney-extraction request no upstream call is retried:
\* the search request is answered once and never issued again, each case
\* has at most one parties, one cluster and one opinion request, the
\* opinion request follows a cluster reply that is a success with a usable
\* first sub-opinion reference, and a failed call is not followed by
\* another call to the same endpoint for the same case.
C25_NoRetries ==
  /\ []NoCallRepeated
  /\ [][search_reply # NoReply => search_reply' = search_reply]_vars

\* the cluster request of a case fails: it was made once and no opinion
\* request follows for that case
C25_Witness ==
  /\ pc = "done" /\ Len(lookups) >= 1
  /\ CallFailed(lookups[1].cluster)
  /\ Cardinality(CallsTo("cluster", 1)) = 1
  /\ CallsTo("opinion", 1) = {}

(***************************************************************************)
(* Properties of two interleaved executions (SpecRuns)                     *)
(***************************************************************************)
\* what execution r is to hold for its case c, from its own search result
\* and the replies it received for that case
OwnKept(r, c) ==
  FilterByParty(
    FromSearch(runs[r].results[c]) \o FromDocket(runs[r].log[c].docket)
      \o FromOpinion(runs[r].log[c].cluster, runs[r].log[c].opinion,
                     runs[r].request.party_filter),
    runs[r].request.party_filter)

OwnRecords(r) ==
  Flatten([c \in 1..Len(runs[r].log) |-> OwnKept(r, c)])

OwnCases(r) ==
  [c \in 1..Len(runs[r].log) |->
     CaseWithAttorneys(runs[r].results[c], OwnKept(r, c))]

\* C26: two attorney-extraction requests whose executions interleave at
\* their await points do not affect each other: the accumulators of each
\* execution, and in its response attorneys_found, cases_with_attorneys
\* and unique_attorneys, are determined by that request's own inputs and
\* the upstream replies it received.
C26_InterleavedRequestsIndependent ==
  \A r \in RunIds :
    /\ runs[r].all_attorneys = OwnRecords(r)
    /\ runs[r].cases_with_attorneys = OwnCases(r)
    /\ runs[r].pc # "search" =>
         runs[r].results = Truncate(runs[r].found, runs[r].request.limit)
    /\ runs[r].pc = "done" =>
         /\ Len(runs[r].log) = Len(runs[r].results)
         /\ runs[r].response.attorneys_found = OwnRecords(r)
         /\ runs[r].response.cases_with_attorneys = OwnCases(r)
         /\ runs[r].response.unique_attorneys
              \in UniqueAttorneys(OwnRecords(r))
         /\ runs[r].response.party_filter = runs[r].request.party_filter

\* the first execution has answered while the second, with another
\* request, waits for the docket of its second case; each holds its own
\* records
C26_Witness ==
  /\ runs[1].pc = "done" /\ runs[2].pc = "docket" /\ runs[2].case_no = 2
  /\ runs[1].request # runs[2].request
  /\ runs[1].response.attorneys_found # <<>>
  /\ runs[2].all_attorneys # <<>>
  /\ runs[1].response.attorneys_found # runs[2].all_attorneys

(***************************************************************************)
(* Properties of the entries of unique_attorneys (SpecAgg)                 *)
(***************************************************************************)
\* the collected records whose name, lower-cased and trimmed, is that of
\* name
SightingsOf(name) ==
  {k \in 1..Len(attorneys_found) :
     NameKey(attorneys_found[k].name) = NameKey(name)}

\* the entries of unique_attorneys a collected record is folded into
EntriesOf(name) ==
  {i \in 1..Len(ranking) : NameKey(ranking[i].name) = NameKey(name)}

\* C27: two collected records are folded into the same unique_attorneys
\* entry if and only if their names are equal once lower-cased and trimmed:
\* every record has exactly one entry, that of its trimmed lower-case name,
\* and names that differ otherwise have separate entries.  An entry's
\* typical_role is one of the roles seen for the name, its firms and its
\* data_sources are the sets of the firms and of the source tags seen.
C27_OneEntryPerTrimmedLowerName ==
  /\ \A i, j \in 1..Len(attorney_counts) :
       attorney_counts[i].key = attorney_counts[j].key => i = j
  /\ apc = "done" =>
       /\ \A k \in 1..Len(attorneys_found) :
            Cardinality(EntriesOf(attorneys_found[k].name)) = 1
       /\ \A i \in 1..Len(ranking) :
            LET seen == SightingsOf(ranking[i].name)
                roles == {attorneys_found[k].role : k \in seen}
                           \ {None, ""}
            IN /\ seen # {}
               /\ ranking[i].name \in {attorneys_found[k].name : k \in seen}
               /\ ranking[i].typical_role
                    \in (IF roles = {} THEN {None} ELSE roles)
               /\ ranking[i].firms
                    = {attorneys_found[k].firm : k \in seen} \ {None, ""}
               /\ ranking[i].data_sources
                    = {attorneys_found[k].source : k \in seen}

\* "Al Roe" and " AL ROE" share an entry with both their roles and sources,
\* "Di Fox" has an entry of its own
C27_Witness ==
  /\ apc = "done" /\ Len(ranking) = 2
  /\ Cardinality(SightingsOf("al roe")) = 2
  /\ \E i \in 1..Len(ranking) :
       /\ NameKey(ranking[i].name) = "al roe"
       /\ ranking[i].data_sources = {"search_result", "opinion_text"}
       /\ ranking[i].typical_role = "For Appellee"
  /\ \E i \in 1..Len(ranking) : ranking[i].name = "Di Fox"

(***************************************************************************)
(* The extractor's party filter against the per-case party filter (SpecExt)*)
(***************************************************************************)
\* C28: for every party filter and every opinion text, each record that
\* extract_attorneys_from_text returns is also retained by the per-case
\* party filter of search_with_attorney_extraction under the same filter:
\* the two alias tables accept the same party strings, for "plaintiff" and
\* "defendant" as for the other filters.
C28_ExtractedRecordsPassCaseFilter ==
  epc = "return" =>
    FilterByParty(unique_attorneys, party_filter) = unique_attorneys

(***************************************************************************)
(* Properties of a successful response as a whole (Spec)                   *)
(***************************************************************************)
RECURSIVE SumOfCaseCounts(_)
SumOfCaseCounts(entries) ==
  IF entries = <<>> THEN 0
  ELSE Head(entries).case_count + SumOfCaseCounts(Tail(entries))

\* C29: in every successful attorney-extraction response the case_count
\* values of unique_attorneys add up to the length of attorneys_found, and
\* every name of attorneys_found has exactly one unique_attorneys entry.
C29_CaseCountsSumToRecords ==
  pc = "done" =>
    /\ SumOfCaseCounts(response.unique_attorneys)
         = Len(response.attorneys_found)
    /\ \A k \in 1..Len(response.attorneys_found) :
         Cardinality({i \in 1..Len(response.unique_attorneys) :
                        NameKey(response.unique_attorneys[i].name)
                          = NameKey(response.attorneys_found[k].name)}) = 1

\* three or more records under two or more names, one name seen twice
C29_Witness ==
  /\ pc = "done"
  /\ Len(response.attorneys_found) >= 3
  /\ Len(response.unique_attorneys) >= 2
  /\ Len(response.unique_attorneys) < Len(response.attorneys_found)
  /\ response.unique_attorneys[1].case_count >= 2

\* C30: in every successful attorney-extraction response attorneys_found is
\* the concatenation, in case order, of the attorneys lists of the entries
\* of cases_with_attorneys, and cases_analyzed is the number of those
\* entries, which is the smaller of limit and the number of upstream
\* results.
C30_FoundIsConcatenationOfCases ==
  /\ all_attorneys
       = Flatten([c \in 1..Len(cases_with_attorneys) |->
                    cases_with_attorneys[c].attorneys])
  /\ pc = "done" =>
       /\ response.attorneys_found
            = Flatten([c \in 1..Len(response.cases_with_attorneys) |->
                         response.cases_with_attorneys[c].attorneys])
       /\ response.cases_analyzed = Len(response.cases_with_attorneys)
       /\ response.cases_analyzed
            = Min(request.limit, Len(search_reply.results))

\* two cases are analysed, each with records of its own
C30_Witness ==
  /\ pc = "done" /\ response.cases_analyzed = 2
  /\ Len(response.cases_with_attorneys[1].attorneys) >= 1
  /\ Len(response.cases_with_attorneys[2].attorneys) >= 2
  /\ response.cases_with_attorneys[1].attorneys
       # response.cases_with_attorneys[2].attorneys
  /\ Len(response.attorneys_found) >= 3

====
